---- MODULE Spec2Model ----
(***************************************************************************)
(* A model of the analysis core of de-agent:                               *)
(*   backend/app/services/analyzer.py     MultiSourceAnalyzer              *)
(*   backend/app/services/llm_service.py  LLMService                       *)
(*   backend/app/services/pipeline_generator.py  generate_sql_scripts      *)
(*   backend/app/main.py                  /upload-csv, /test-connection    *)
(* Every operation is one action that models the whole call.  A call is    *)
(* recorded by its arguments (…_call) and by what the caller observes      *)
(* (…_ret): the value returned, or the exception that escaped.             *)
(***************************************************************************)
EXTENDS Integers, Sequences, FiniteSets, TLC

VARIABLES
    pc,                 \* position of each component's call: "idle", "waiting", "ready" or "done"
    prof_call,          \* argument of the last analyze_source call
    prof_ret,           \* its outcome: exception escaped / value / engine use
    yandex_api_key,     \* LLMService.yandex_api_key is set (truthy)
    deepseek_api_key,   \* LLMService.deepseek_api_key is set (truthy)
    llm_call,           \* arguments and backend behaviour of the last generate_recommendations call
    llm_ret,            \* its outcome
    an_sources,         \* the source list find_relationships and analyze_data_patterns are called with
    rel_ret,            \* outcome of find_relationships(an_sources)
    pat_ret,            \* outcome of analyze_data_patterns(an_sources)
    rule_call,          \* arguments of the last _generate_rule_based_recommendations call
    rule_ret,           \* its outcome
    rule_log,           \* the earlier calls of the rule-based strategy: arguments and outcome
    other,              \* a second request served by the same analyzer and llm_service: its inputs, position and results
    sql_ret,            \* outcome of the last generate_sql_scripts call
    http_call,          \* the request of the last call of an HTTP operation of main.py, and the world it runs in
    http_ret,           \* the response to it, and the sources it had profiled
    objects             \* the list objects of a run of repeated rule-based calls, each at its place: the lists the caller built and the lists the calls made

vars == <<pc, prof_call, prof_ret, yandex_api_key, deepseek_api_key, llm_call, llm_ret,
          an_sources, rel_ret, pat_ret, rule_call, rule_ret,
          rule_log,
          other,
          sql_ret,
          http_call,
          http_ret,
          objects>>

(***************************************************************************)
(* Bounds of the model.                                                    *)
(***************************************************************************)
MaxExtra == 2       \* source sizes go up to the sample cap plus MaxExtra rows
MaxCols == 2        \* columns of a profiled source
MaxReplyLen == 4    \* tokens of a backend reply, the replies of LongReplies apart
MaxSources == 2     \* sources of a recommendation request
MaxAnSources == 3   \* sources of a relationship / pattern analysis
MaxRuleCalls == 3   \* calls of the rule-based strategy on one service
MaxPipelineSources == 2  \* sources of a recommendation request that is analysed first

(***************************************************************************)
(* Program constants.                                                      *)
(***************************************************************************)
SampleCap == 1000   \* nrows=1000 / LIMIT 1000
PreviewRows == 5    \* head(5)

Min(a, b) == IF a <= b THEN a ELSE b

\* Python's Optional[T]: None is <<>>, a value v is <<v>>.
None == <<>>
Some(v) == <<v>>
IsNone(o) == Len(o) = 0

\* dict.get(key, default)
dict_get(dict, key, default) == IF key \in DOMAIN dict THEN dict[key] ELSE default

Range(s) == { s[i] : i \in 1..Len(s) }

\* All sequences without repetition of length <= n over the set S.
DistinctSeqs(S, n) ==
    { t \in UNION { [1..k -> S] : k \in 0..n } : Cardinality(Range(t)) = Len(t) }

(***************************************************************************)
(* schemas.py                                                              *)
(***************************************************************************)
SourceType == {"csv", "postgresql", "clickhouse", "json", "excel", "rest_api"}

\* SchemaInfo(columns, dtypes, sample_data, row_count, null_counts, unique_counts)
SchemaInfo(columns, dtypes, sample_data, row_count, null_counts, unique_counts) ==
    [columns |-> columns, dtypes |-> dtypes, sample_data |-> sample_data,
     row_count |-> row_count, null_counts |-> null_counts,
     unique_counts |-> unique_counts]


(***************************************************************************)
(* What a data source holds.  A tabular source (file, sheet, table) has    *)
(* named columns and nrows rows; a JSON document is a list of nrows        *)
(* objects with the same keys, or a single object.  The cell of column c   *)
(* in row i is fixed by the column: "id" numbers the rows, "amount" is a   *)
(* number missing in every third row, "name" is a text missing in every    *)
(* fourth row.                                                             *)
(***************************************************************************)
ProfColumns == {"id", "amount", "name"}

IsText(c) == c = "name"

Cell(c, i) ==
    CASE c = "id"     -> [isnull |-> FALSE, val |-> i]
      [] c = "amount" -> [isnull |-> i % 3 = 0, val |-> i % 4]
      [] OTHER        -> [isnull |-> i % 4 = 0, val |-> i % 2]

SourceSizes == {0, 1, PreviewRows - 1, PreviewRows, PreviewRows + 1}
               \cup (SampleCap - 1)..(SampleCap + MaxExtra)

\* Files, sheets and tables: at least one column.
TabularContents ==
    [columns : DistinctSeqs(ProfColumns, MaxCols) \ { <<>> }, nrows : SourceSizes]

\* JSON documents: the objects may be empty ({} has no keys).
JsonContents ==
    [columns : DistinctSeqs(ProfColumns, MaxCols), nrows : SourceSizes]

(***************************************************************************)
(* pandas, as far as analyzer.py uses it.  A DataFrame is its column       *)
(* labels and its number of rows; row i of a frame read from a source is   *)
(* row i of the source.                                                    *)
(***************************************************************************)
DataFrame(columns, nrows) == [columns |-> columns, nrows |-> nrows]

\* pd.read_csv(..., nrows=n), pd.read_excel(..., nrows=n),
\* pd.read_sql("SELECT * FROM t LIMIT n"): the first n rows at most.
read_prefix(content, n) == DataFrame(content.columns, Min(content.nrows, n))

\* pd.json_normalize(data): one row per element of the list, every element.
\* An empty list gives the empty frame.
json_normalize(columns, nrecords) ==
    DataFrame(IF nrecords = 0 THEN <<>> ELSE columns, nrecords)

\* str(dtype) of a column of the frame.
dtype_of(df, c) ==
    IF IsText(c) \/ df.nrows = 0 THEN "object"
    ELSE IF \E i \in 1..df.nrows : Cell(c, i).isnull THEN "float64"
    ELSE "int64"

\* df[col].isnull().sum()
isnull_sum(df, c) == Cardinality({ i \in 1..df.nrows : Cell(c, i).isnull })

\* df[col].nunique(): distinct values, missing ones not counted.
nunique(df, c) ==
    Cardinality({ Cell(c, i).val : i \in { j \in 1..df.nrows : ~Cell(c, j).isnull } })

\* df.fillna(""): a missing cell becomes the empty string.
fillna(cell) == IF cell.isnull THEN [isnull |-> FALSE, val |-> ""] ELSE cell

\* head_records without the cap: every row of the frame is previewed.
head_records_uncapped(df, n) ==
    IF df.columns = <<>> THEN <<>>
    ELSE [ i \in 1..df.nrows |->
             [ c \in Range(df.columns) |-> fillna(Cell(c, i)) ] ]

\* df.fillna("").head(n).to_dict('records'): one dict per row of the first n
\* rows; to_dict zips the column arrays, so a frame without columns yields
\* no record at all, whatever its length.
head_records(df, n) ==
    IF df.columns = <<>> THEN <<>>
    ELSE [ i \in 1..Min(n, df.nrows) |->
             [ c \in Range(df.columns) |-> fillna(Cell(c, i)) ] ]

\* _create_schema_info counting distinct values of the numeric columns only.
create_schema_info_numeric_unique(df) ==
    SchemaInfo(df.columns,
               [ c \in Range(df.columns) |-> dtype_of(df, c) ],
               head_records(df, PreviewRows),
               df.nrows,
               [ c \in Range(df.columns) |-> isnull_sum(df, c) ],
               [ c \in { x \in Range(df.columns) : ~IsText(x) } |-> nunique(df, c) ])

\* analyzer.py _create_schema_info
_create_schema_info(df) ==
    SchemaInfo(df.columns,
               [ c \in Range(df.columns) |-> dtype_of(df, c) ],
               head_records(df, PreviewRows),
               df.nrows,
               [ c \in Range(df.columns) |-> isnull_sum(df, c) ],
               [ c \in Range(df.columns) |-> nunique(df, c) ])

(***************************************************************************)
(* The outcome of a call inside the analyzer: the exception it raised      *)
(* ("" when it returned), the value it returned, and the database engines  *)
(* it created (create_engine) and released (engine.dispose).               *)
(***************************************************************************)
Raise(e, created, disposed) ==
    [exc |-> e, val |-> None, created |-> created, disposed |-> disposed]

Return(v, created, disposed) ==
    [exc |-> "", val |-> Some(v), created |-> created, disposed |-> disposed]

(***************************************************************************)
(* DataSourceConfig.config together with the world it points into:         *)
(*   locator      which of "file_data" / "file_path" the config holds      *)
(*   readable     the file exists and decodes                              *)
(*   conn_keys    username, password, host and database are all present    *)
(*   table_key    "table" is present                                       *)
(*   engine_ok    create_engine accepts the connection string              *)
(*   query_ok     the database answers the SELECT                          *)
(*   root_is_list the JSON document's root is a list                       *)
(*   content      what the source holds                                    *)
(***************************************************************************)
Config(locator, readable, conn_keys, table_key, engine_ok, query_ok, root_is_list, content) ==
    [locator |-> locator, readable |-> readable, conn_keys |-> conn_keys,
     table_key |-> table_key, engine_ok |-> engine_ok, query_ok |-> query_ok,
     root_is_list |-> root_is_list, content |-> content]

Locators == {"file_data", "file_path", "none"}

\* analyzer.py _analyze_csv
_analyze_csv(config) ==
    IF config.locator = "none" THEN Raise("KeyError", 0, 0)
    ELSE IF ~config.readable THEN Raise("ReadError", 0, 0)
    ELSE Return(_create_schema_info(read_prefix(config.content, SampleCap)), 0, 0)

\* analyzer.py _analyze_excel
_analyze_excel(config) ==
    IF config.locator = "none" THEN Raise("KeyError", 0, 0)
    ELSE IF ~config.readable THEN Raise("ReadError", 0, 0)
    ELSE Return(_create_schema_info(read_prefix(config.content, SampleCap)), 0, 0)

\* analyzer.py _analyze_json: json.load reads the whole document.
_analyze_json(config) ==
    IF config.locator = "none" THEN Raise("KeyError", 0, 0)
    ELSE IF ~config.readable THEN Raise("ReadError", 0, 0)
    ELSE IF config.root_is_list
         THEN Return(_create_schema_info(
                        json_normalize(config.content.columns, config.content.nrows)), 0, 0)
         ELSE Return(_create_schema_info(
                        json_normalize(config.content.columns, 1)), 0, 0)

\* analyzer.py _analyze_postgresql: the connection string, create_engine,
\* the query text, pd.read_sql, engine.dispose(), in this order.
_analyze_postgresql(config) ==
    IF ~config.conn_keys THEN Raise("KeyError", 0, 0)
    ELSE IF ~config.engine_ok THEN Raise("ArgumentError", 0, 0)
    ELSE IF ~config.table_key THEN Raise("KeyError", 1, 0)
    ELSE IF ~config.query_ok THEN Raise("OperationalError", 1, 0)
    ELSE Return(_create_schema_info(read_prefix(config.content, SampleCap)), 1, 1)

\* The failure result of analyze_source.
EmptySchemaInfo == SchemaInfo(<<>>, <<>>, <<>>, 0, <<>>, <<>>)

\* analyzer.py analyze_source, the dispatch inside the try block.
analyze_source_try(source) ==
    CASE source.type = "csv"        -> _analyze_csv(source.config)
      [] source.type = "postgresql" -> _analyze_postgresql(source.config)
      [] source.type = "json"       -> _analyze_json(source.config)
      [] source.type = "excel"      -> _analyze_excel(source.config)
      [] OTHER                      -> Raise("ValueError", 0, 0)

\* analyze_source with an except clause that lets KeyError through.
analyze_source_keyerror_escapes(source) ==
    LET r == analyze_source_try(source)
    IN  IF r.exc = "KeyError"
        THEN [exc |-> "KeyError", val |-> None, failed |-> TRUE,
              created |-> r.created, disposed |-> r.disposed]
        ELSE IF r.exc # ""
        THEN [exc |-> "", val |-> Some(EmptySchemaInfo), failed |-> TRUE,
              created |-> r.created, disposed |-> r.disposed]
        ELSE [exc |-> "", val |-> r.val, failed |-> FALSE,
              created |-> r.created, disposed |-> r.disposed]

\* analyzer.py analyze_source: "except Exception" turns whatever the try
\* block raised into the empty SchemaInfo.  failed records that it did.
analyze_source(source) ==
    LET r == analyze_source_try(source)
    IN  IF r.exc # ""
        THEN [exc |-> "", val |-> Some(EmptySchemaInfo), failed |-> TRUE,
              created |-> r.created, disposed |-> r.disposed]
        ELSE [exc |-> "", val |-> r.val, failed |-> FALSE,
              created |-> r.created, disposed |-> r.disposed]

(***************************************************************************)
(* The sources analyze_source is called with.  Fields of the config that   *)
(* a source type never looks at keep a fixed value.                        *)
(***************************************************************************)
NoContent == [columns |-> <<"id">>, nrows |-> 0]

FileSources(type) ==
    { [type |-> type,
       config |-> Config(l, r, TRUE, TRUE, TRUE, TRUE, TRUE, c)] :
      l \in Locators, r \in BOOLEAN, c \in TabularContents }

JsonSources ==
    { [type |-> "json",
       config |-> Config(l, r, TRUE, TRUE, TRUE, TRUE, isl, c)] :
      l \in Locators, r \in BOOLEAN, isl \in BOOLEAN, c \in JsonContents }

TableSources ==
    { [type |-> "postgresql",
       config |-> Config("none", TRUE, k, t, e, q, TRUE, c)] :
      k \in BOOLEAN, t \in BOOLEAN, e \in BOOLEAN, q \in BOOLEAN,
      c \in TabularContents }

OtherSources ==
    { [type |-> type,
       config |-> Config("none", TRUE, TRUE, TRUE, TRUE, TRUE, TRUE, NoContent)] :
      type \in {"clickhouse", "rest_api"} }

ProfSources ==
    FileSources("csv") \cup FileSources("excel") \cup JsonSources
    \cup TableSources \cup OtherSources

NoCall == [type |-> "", config |-> Config("none", TRUE, TRUE, TRUE, TRUE, TRUE, TRUE, NoContent)]
NoRet == [exc |-> "", val |-> None, failed |-> FALSE, created |-> 0, disposed |-> 0]

\* One call of analyzer.analyze_source(prof_call).
AnalyzeSource ==
    /\ pc.analyzer = "ready"
    /\ prof_ret' = analyze_source(prof_call)
    /\ pc' = [pc EXCEPT !.analyzer = "done"]
    /\ UNCHANGED <<prof_call, yandex_api_key, deepseek_api_key, llm_call, llm_ret,
                   an_sources, rel_ret, pat_ret, rule_call, rule_ret, rule_log, other, sql_ret, http_call, http_ret, objects>>

(***************************************************************************)
(* llm_service.py                                                          *)
(*                                                                         *)
(* A backend reply is a text, modelled as a sequence of tokens.  Only the  *)
(* two brace tokens hold a brace:                                          *)
(*   "{" "}"       the braces                                              *)
(*   "x"           prose without braces                                    *)
(*   "s" "d" "e"   the keys "storage_recommendation":, "schema_design":    *)
(*                 and "etl_pipeline": with their colon; the value follows *)
(*   "v"           a member with a string value, "reasoning": "..."        *)
(* A member carries the comma that separates it from the next one.         *)
(***************************************************************************)
ReplyTokens == {"{", "}", "x", "s", "d", "e", "v"}

KeyTokens == {"s", "d", "e"}

SectionOf(tok) ==
    CASE tok = "s" -> "storage_recommendation"
      [] tok = "d" -> "schema_design"
      [] OTHER     -> "etl_pipeline"

Sections == {"storage_recommendation", "schema_design", "etl_pipeline"}

\* The reply the prompt asks for (llm_service.py lines 90-107).
CompleteReply ==
    <<"{", "s", "{", "v", "}", "d", "{", "v", "}", "e", "{", "v", "}", "}">>

\* Replies longer than MaxReplyLen: the complete reply, alone, inside prose,
\* followed by one more member, cut short; replies with one and with two
\* sections; a section followed by one more member.
LongReplies ==
    { CompleteReply,
      <<"x">> \o CompleteReply \o <<"x">>,
      CompleteReply \o <<"s", "{", "v", "}">>,
      SubSeq(CompleteReply, 1, Len(CompleteReply) - 1),
      <<"{", "s", "{", "v", "}", "}">>,
      <<"{", "s", "{", "v", "}", "d", "{", "v", "}", "}">>,
      <<"{", "s", "{", "v", "}", "}", "s", "{", "v", "}">> }

\* Non-empty replies (an empty text is the response kind "empty").
Replies == UNION { [1..k -> ReplyTokens] : k \in 1..MaxReplyLen } \cup LongReplies

\* str.find(ch): the 0-based index of the first occurrence, -1 if none.
find(str, ch) ==
    IF \E i \in 1..Len(str) : str[i] = ch
    THEN (CHOOSE i \in 1..Len(str) :
            str[i] = ch /\ \A j \in 1..(i - 1) : str[j] # ch) - 1
    ELSE -1

\* str.rfind(ch): the 0-based index of the last occurrence, -1 if none.
rfind(str, ch) ==
    IF \E i \in 1..Len(str) : str[i] = ch
    THEN (CHOOSE i \in 1..Len(str) :
            str[i] = ch /\ \A j \in (i + 1)..Len(str) : str[j] # ch) - 1
    ELSE -1

\* str[start:end] for 0 <= start and 0 <= end.
slice(str, start, end) ==
    IF start >= Min(end, Len(str)) THEN <<>>
    ELSE SubSeq(str, start + 1, Min(end, Len(str)))

\* The empty dict {}.
EmptyDict == <<>>

\* dict[key] = value
dict_set(dict, key, value) ==
    [ k \in DOMAIN dict \cup {key} |-> IF k = key THEN value ELSE dict[k] ]

\* The value of a "v" member.
LlmText == "llm"

\* json.loads on the members of an object, from token i on, after the
\* members collected in dict: whether the object is well formed, the token
\* after its closing brace, and the dict.  A member is "v" or a key and an
\* object.
RECURSIVE json_members(_, _, _)
json_members(text, i, dict) ==
    IF i > Len(text) THEN [ok |-> FALSE, next |-> i, val |-> dict]
    ELSE IF text[i] = "}" THEN [ok |-> TRUE, next |-> i + 1, val |-> dict]
    ELSE IF text[i] = "v" THEN json_members(text, i + 1, dict_set(dict, "reasoning", LlmText))
    ELSE IF text[i] \in KeyTokens /\ i < Len(text) /\ text[i + 1] = "{"
    THEN LET inner == json_members(text, i + 2, EmptyDict)
         IN  IF inner.ok
             THEN json_members(text, inner.next, dict_set(dict, SectionOf(text[i]), inner.val))
             ELSE [ok |-> FALSE, next |-> inner.next, val |-> dict]
    ELSE [ok |-> FALSE, next |-> i, val |-> dict]

\* json.loads accepts the text: one object and nothing after it.
json_valid(text) ==
    /\ Len(text) >= 2
    /\ text[1] = "{"
    /\ LET r == json_members(text, 2, EmptyDict) IN r.ok /\ r.next = Len(text) + 1

\* json.loads(text) for an accepted text: the dict of its members.
json_loads(text) == json_members(text, 2, EmptyDict).val

\* llm_service.py _parse_llm_response
_parse_llm_response(response) ==
    LET start == find(response, "{")
        end == rfind(response, "}") + 1
    IN  IF start # -1 /\ end # 0
        THEN LET json_str == slice(response, start, end)
             IN  IF json_valid(json_str) THEN json_loads(json_str)
                 ELSE EmptyDict       \* json.loads raised, except: return {}
        ELSE EmptyDict                \* ValueError raised, except: return {}

(***************************************************************************)
(* The rule-based strategy.  Texts are sequences of pieces; the Russian    *)
(* literals of the source are transliterated.                              *)
(***************************************************************************)
UpdateFrequency == {"once", "hourly", "daily", "weekly", "realtime"}

\* ['продажи', 'аналитика', 'отчет', 'дашборд']
AnalyticsKeywords == {"prodazhi", "analitika", "otchet", "dashbord"}

\* ', '.join(xs), as pieces.
RECURSIVE join_comma(_)
join_comma(xs) ==
    IF Len(xs) = 0 THEN <<>>
    ELSE IF Len(xs) = 1 THEN <<xs[1]>>
    ELSE <<xs[1], ", ">> \o join_comma(Tail(xs))

\* xs[:n]
take(xs, n) == SubSeq(xs, 1, Min(n, Len(xs)))

\* The DDL text of the rule-based strategy, after strip().
ddl_text(storage, main_table, partitioning, indexes) ==
    IF storage = "clickhouse"
    THEN <<"CREATE TABLE ", main_table,
           "\n(\n    date Date,\n    timestamp DateTime,\n    -- Add your columns here based on source analysis\n) ENGINE = MergeTree()\n">>
         \o (IF IsNone(partitioning) THEN <<>> ELSE <<partitioning[1]>>)
         \o <<"\nORDER BY (">>
         \o (IF Len(indexes) > 0 THEN join_comma(indexes) ELSE <<"date">>)
         \o <<")">>
    ELSE <<"CREATE TABLE ", main_table,
           " (\n    id SERIAL PRIMARY KEY,\n    created_at TIMESTAMP DEFAULT CURRENT_TIMESTAMP,\n    -- Add your columns here based on source analysis\n);">>
         \o (IF Len(indexes) > 0
             THEN <<"\nCREATE INDEX ON ", main_table, " (">> \o join_comma(indexes) \o <<");">>
             ELSE <<>>)

\* The table with realtime scheduled every hour.
schedule_of_realtime_hourly(update_frequency) ==
    CASE update_frequency = "once"     -> "# Run once manually"
      [] update_frequency = "hourly"   -> "0 * * * *"
      [] update_frequency = "daily"    -> "0 2 * * *"
      [] update_frequency = "weekly"   -> "0 2 * * 0"
      [] OTHER                         -> "0 * * * *"

\* freq_map.get(update_frequency.value, "0 2 * * *")
schedule_of(update_frequency) ==
    CASE update_frequency = "once"   -> "# Run once manually"
      [] update_frequency = "hourly" -> "0 * * * *"
      [] update_frequency = "daily"  -> "0 2 * * *"
      [] update_frequency = "weekly" -> "0 2 * * 0"
      [] OTHER                       -> "0 2 * * *"

\* The storage branch taken when the first branch ignores the temporal flag.
choose_storage_ignoring_temporal(is_analytics, has_temporal, total_rows) ==
    IF is_analytics /\ total_rows > 100000
    THEN [storage |-> "clickhouse",
          reasoning |-> "Analiticheskie zaprosy po vremennym dannym s bol'shim ob'emom"]
    ELSE IF total_rows > 1000000
    THEN [storage |-> "clickhouse",
          reasoning |-> "Bol'shoj ob'em dannyh trebuet kolonochnogo hranilishha"]
    ELSE [storage |-> "postgresql",
          reasoning |-> "Standartnye operacionnye dannye srednej nagruzki"]

\* The storage branch taken (llm_service.py 203-211): storage and reasoning.
choose_storage(is_analytics, has_temporal, total_rows) ==
    IF is_analytics /\ has_temporal /\ total_rows > 100000
    THEN [storage |-> "clickhouse",
          reasoning |-> "Analiticheskie zaprosy po vremennym dannym s bol'shim ob'emom"]
    ELSE IF total_rows > 1000000
    THEN [storage |-> "clickhouse",
          reasoning |-> "Bol'shoj ob'em dannyh trebuet kolonochnogo hranilishha"]
    ELSE [storage |-> "postgresql",
          reasoning |-> "Standartnye operacionnye dannye srednej nagruzki"]

\* The partitioning expression with the threshold inclusive.
choose_partitioning_inclusive(has_temporal, storage, total_rows) ==
    IF has_temporal /\ storage = "clickhouse"
    THEN IF total_rows >= 1000000 THEN Some("PARTITION BY toYYYYMM(date)")
         ELSE Some("PARTITION BY toYear(date)")
    ELSE None

\* The partitioning expression chosen for any storage.
choose_partitioning_any_storage(has_temporal, storage, total_rows) ==
    IF has_temporal
    THEN IF total_rows > 1000000 THEN Some("PARTITION BY toYYYYMM(date)")
         ELSE Some("PARTITION BY toYear(date)")
    ELSE None

\* The partitioning expression (llm_service.py 213-219).
choose_partitioning(has_temporal, storage, total_rows) ==
    IF has_temporal /\ storage = "clickhouse"
    THEN IF total_rows > 1000000 THEN Some("PARTITION BY toYYYYMM(date)")
         ELSE Some("PARTITION BY toYear(date)")
    ELSE None

\* A Python list is an object: a call works on the list it is handed, and
\* what it writes is seen by whoever holds the same list.  The store holds
\* the lists, each named by its place; a dict of data patterns names the
\* list of its temporal_columns by that place.
\*
\* The lists the caller of the repeated calls built: the temporal columns
\* of four dicts of data patterns; the second and the fourth are equal
\* lists, built apart.
RepeatObjects ==
    << <<>>,
       <<"created_at", "UPDATED", "created_at">>,
       <<"created_at">>,
       <<"created_at", "UPDATED", "created_at">> >>

\* indexes as a default value of the function: the list is made by the first
\* call on the service and every later call works on the same one.
new_list_made_once(store) ==
    IF Len(store) > Len(RepeatObjects)
    THEN [objects |-> store, at |-> Len(RepeatObjects) + 1]
    ELSE [objects |-> Append(store, <<>>), at |-> Len(store) + 1]

\* indexes = [] (llm_service.py 222): a new empty list, and its place.
new_list(store) ==
    [objects |-> Append(store, <<>>), at |-> Len(store) + 1]

\* llm_service.py _generate_rule_based_recommendations on the lists of the
\* store: the store after the call, and the dict it returns with the
\* content of its lists at the return.
_generate_rule_based_recommendations_on(store, sources, business_requirements, data_patterns) ==
    LET total_rows == data_patterns.total_estimated_rows
        has_temporal == data_patterns.has_temporal_data
        is_analytics == \E i \in 1..Len(business_requirements.target_metrics) :
                            business_requirements.target_metrics[i] \in AnalyticsKeywords
        branch == choose_storage(is_analytics, has_temporal, total_rows)
        storage == branch.storage
        reasoning == branch.reasoning
        partitioning == choose_partitioning(has_temporal, storage, total_rows)
        made == new_list(store)
        indexes == made.at
        temporal_cols == data_patterns.temporal_columns
        \* if temporal_cols: indexes.extend(temporal_cols[:2])
        after == IF Len(made.objects[temporal_cols]) > 0
                 THEN [made.objects EXCEPT
                          ![indexes] = @ \o take(made.objects[temporal_cols], 2)]
                 ELSE made.objects
        main_table == IF is_analytics THEN "analytics_data" ELSE "processed_data"
    IN  [objects |-> after,
         val |->
           [storage_recommendation |->
               [primary |-> storage,
                reasoning |-> reasoning,
                alternatives |-> IF storage = "hdfs" THEN <<"postgresql", "clickhouse">>
                                 ELSE <<"hdfs">>],
            schema_design |->
               [main_table |-> main_table,
                partitioning |-> partitioning,
                indexes |-> after[indexes],
                ddl_script |-> ddl_text(storage, main_table, partitioning, after[indexes])],
            etl_pipeline |->
               [steps |-> <<"Extract from sources", "Join data on common keys",
                            "Apply transformations", <<"Load to ", storage>> >>,
                schedule |-> schedule_of(business_requirements.update_frequency),
                estimated_runtime |-> "10-30 minutes"]]]

\* llm_service.py _generate_rule_based_recommendations on data patterns that
\* carry their temporal_columns: the call on a store that holds this list
\* only.
_generate_rule_based_recommendations(sources, business_requirements, data_patterns) ==
    _generate_rule_based_recommendations_on(
        <<data_patterns.temporal_columns>>, sources, business_requirements,
        [data_patterns EXCEPT !.temporal_columns = 1]).val

(***************************************************************************)
(* The generative strategy.                                                *)
(***************************************************************************)
\* The outcome of a call inside the service: the exception it raised ("" when
\* it returned), the value it returned, and the backends and strategies it
\* called, in order.
LlmRaise(e, calls) == [exc |-> e, val |-> None, calls |-> calls]
LlmReturn(v, calls) == [exc |-> "", val |-> Some(v), calls |-> calls]

\* llm_service.py _create_analysis_prompt: one line per source, each read
\* through source.schema_info.get(...); a source whose schema_info is None
\* raises AttributeError.
_create_analysis_prompt(sources, business_requirements, data_patterns) ==
    IF \E i \in 1..Len(sources) : IsNone(sources[i].schema_info)
    THEN LlmRaise("AttributeError", <<>>)
    ELSE LlmReturn(
           [sources_info |->
               [ i \in 1..Len(sources) |->
                   [name |-> sources[i].name, type |-> sources[i].type,
                    ncolumns |-> Len(dict_get(sources[i].schema_info[1], "columns", <<>>)),
                    row_count |-> dict_get(sources[i].schema_info[1], "row_count", 0),
                    key_fields |->
                        take(dict_get(sources[i].schema_info[1], "columns", <<>>), 5)] ],
            has_temporal_data |-> data_patterns.has_temporal_data,
            temporal_columns |-> data_patterns.temporal_columns,
            has_geographical_data |-> data_patterns.has_geographical_data,
            total_estimated_rows |-> data_patterns.total_estimated_rows,
            goal |-> business_requirements.goal,
            target_metrics |-> business_requirements.target_metrics,
            update_frequency |-> business_requirements.update_frequency,
            expected_load |-> business_requirements.expected_load], <<>>)

(***************************************************************************)
(* What a backend does with a request:                                     *)
(*   kind "raise"   the POST raises (timeout, network error) or the 200    *)
(*                  body lacks the expected fields                         *)
(*   kind "status"  a non-200 status                                       *)
(*   kind "ok"      status 200 with the text (possibly empty)              *)
(***************************************************************************)
BackendRaise == [kind |-> "raise", text |-> <<>>]
BackendStatus == [kind |-> "status", text |-> <<>>]
BackendOk(text) == [kind |-> "ok", text |-> text]

\* llm_service.py _call_yandex_gpt: the text on status 200, None otherwise.
_call_yandex_gpt(prompt, backend) ==
    IF backend.kind = "raise" THEN LlmRaise("HTTPError", <<"yandex">>)
    ELSE IF backend.kind = "ok" THEN [exc |-> "", val |-> Some(backend.text), calls |-> <<"yandex">>]
    ELSE [exc |-> "", val |-> None, calls |-> <<"yandex">>]

\* llm_service.py _call_deepseek
_call_deepseek(prompt, backend) ==
    IF backend.kind = "raise" THEN LlmRaise("HTTPError", <<"deepseek">>)
    ELSE IF backend.kind = "ok" THEN [exc |-> "", val |-> Some(backend.text), calls |-> <<"deepseek">>]
    ELSE [exc |-> "", val |-> None, calls |-> <<"deepseek">>]

\* A test that takes no response for an answer.
truthy_never(response) == FALSE

\* "if response:" for a response that is None or a text.
truthy(response) == ~IsNone(response) /\ Len(response[1]) > 0

\* llm_service.py generate_recommendations, the try block.
generate_recommendations_try(self, prompt, sources, business_requirements, data_patterns, world) ==
    LET y == IF self.yandex_api_key THEN _call_yandex_gpt(prompt, world.yandex)
             ELSE [exc |-> "", val |-> None, calls |-> <<>>]
    IN  IF y.exc # "" THEN y
        ELSE IF truthy(y.val)
        THEN LlmReturn(_parse_llm_response(y.val[1]), y.calls \o <<"parse">>)
        ELSE LET d == IF self.deepseek_api_key THEN _call_deepseek(prompt, world.deepseek)
                      ELSE [exc |-> "", val |-> None, calls |-> <<>>]
             IN  IF d.exc # "" THEN LlmRaise(d.exc, y.calls \o d.calls)
                 ELSE IF truthy(d.val)
                 THEN LlmReturn(_parse_llm_response(d.val[1]),
                                y.calls \o d.calls \o <<"parse">>)
                 ELSE LlmReturn(_generate_rule_based_recommendations(
                                    sources, business_requirements, data_patterns),
                                y.calls \o d.calls \o <<"rule_based">>)

\* llm_service.py generate_recommendations: the prompt is built before the
\* try block; "except Exception" answers with the rule-based strategy.
generate_recommendations(self, sources, business_requirements, data_patterns, world) ==
    LET prompt == _create_analysis_prompt(sources, business_requirements, data_patterns)
    IN  IF prompt.exc # "" THEN prompt
        ELSE LET r == generate_recommendations_try(self, prompt.val[1], sources,
                          business_requirements, data_patterns, world)
             IN  IF r.exc # ""
                 THEN LlmReturn(_generate_rule_based_recommendations(
                                    sources, business_requirements, data_patterns),
                                r.calls \o <<"rule_based">>)
                 ELSE r

(***************************************************************************)
(* generate_recommendations is a coroutine.  It gives way to the other     *)
(* requests inside "async with httpx.AsyncClient" of _call_yandex_gpt      *)
(* (lines 133-141) and of _call_deepseek (lines 162-170): while it awaits  *)
(* client.post, and again when it leaves the block after the answer was    *)
(* read (the client is closed in __aexit__).  A part of the call is what   *)
(* runs between two of these points: where the call is after the part      *)
(* ("yandex": it awaits the POST to YandexGPT, "deepseek": it awaits the   *)
(* POST to DeepSeek, "done": the call is over), and its outcome so far.    *)
(***************************************************************************)
\* The outcome of a call that waits for a backend: the calls made so far.
LlmWaiting(calls) == [exc |-> "", val |-> None, calls |-> calls]

\* Lines 43-49 up to the POST to DeepSeek: after YandexGPT gave no text or
\* was not asked.
generate_recommendations_from_deepseek(self, sources, business_requirements, data_patterns, calls) ==
    IF self.deepseek_api_key
    THEN [at |-> "deepseek", ret |-> LlmWaiting(calls)]
    ELSE [at |-> "done",
          ret |-> LlmReturn(_generate_rule_based_recommendations(
                                sources, business_requirements, data_patterns),
                            calls \o <<"rule_based">>)]

\* Lines 33-38 up to the POST to YandexGPT: the prompt, then the first
\* configured backend.
generate_recommendations_enter(self, sources, business_requirements, data_patterns) ==
    LET prompt == _create_analysis_prompt(sources, business_requirements, data_patterns)
    IN  IF prompt.exc # "" THEN [at |-> "done", ret |-> prompt]
        ELSE IF self.yandex_api_key THEN [at |-> "yandex", ret |-> LlmWaiting(<<>>)]
        ELSE generate_recommendations_from_deepseek(
                 self, sources, business_requirements, data_patterns, <<>>)

\* Lines 38-53 from the return of _call_yandex_gpt on: its client is closed.
generate_recommendations_yandex(self, sources, business_requirements, data_patterns, world) ==
    LET prompt == _create_analysis_prompt(sources, business_requirements, data_patterns)
        y == _call_yandex_gpt(prompt.val[1], world.yandex)
    IN  IF y.exc # ""
        THEN [at |-> "done",
              ret |-> LlmReturn(_generate_rule_based_recommendations(
                                    sources, business_requirements, data_patterns),
                                y.calls \o <<"rule_based">>)]
        ELSE IF truthy(y.val)
        THEN [at |-> "done",
              ret |-> LlmReturn(_parse_llm_response(y.val[1]), y.calls \o <<"parse">>)]
        ELSE generate_recommendations_from_deepseek(
                 self, sources, business_requirements, data_patterns, y.calls)

\* Lines 44-53 from the return of _call_deepseek on: its client is closed;
\* calls are the calls made before it.
generate_recommendations_deepseek(self, sources, business_requirements, data_patterns, world, calls) ==
    LET prompt == _create_analysis_prompt(sources, business_requirements, data_patterns)
        d == _call_deepseek(prompt.val[1], world.deepseek)
    IN  IF d.exc # ""
        THEN [at |-> "done",
              ret |-> LlmReturn(_generate_rule_based_recommendations(
                                    sources, business_requirements, data_patterns),
                                calls \o d.calls \o <<"rule_based">>)]
        ELSE IF truthy(d.val)
        THEN [at |-> "done",
              ret |-> LlmReturn(_parse_llm_response(d.val[1]),
                                calls \o d.calls \o <<"parse">>)]
        ELSE [at |-> "done",
              ret |-> LlmReturn(_generate_rule_based_recommendations(
                                    sources, business_requirements, data_patterns),
                                calls \o d.calls \o <<"rule_based">>)]

(***************************************************************************)
(* The arguments generate_recommendations is called with, and the backends *)
(* it talks to.                                                            *)
(***************************************************************************)
OrdersSource ==
    [id |-> "orders", name |-> "orders", type |-> "csv",
     config |-> NoCall.config,
     schema_info |-> Some([columns |-> <<"order_id", "customer_id", "amount", "created_at">>,
                           row_count |-> 500000])]

\* A source that was never profiled: schema_info is None.  Its file can
\* be read.
RawSource ==
    [id |-> "raw", name |-> "raw", type |-> "csv",
     config |-> Config("file_path", TRUE, TRUE, TRUE, TRUE, TRUE, TRUE,
                       [columns |-> <<"id", "amount">>, nrows |-> PreviewRows]),
     schema_info |-> None]

LlmCatalog == {OrdersSource, RawSource}

LlmSourceLists == UNION { [1..k -> LlmCatalog] : k \in 0..MaxSources }

BusinessRequirements(target_metrics, update_frequency) ==
    [goal |-> "goal", target_metrics |-> target_metrics,
     update_frequency |-> update_frequency,
     expected_load |-> "medium", data_retention |-> "1 year"]

LlmRequirements ==
    { BusinessRequirements(m, "daily") : m \in { <<>>, <<"analitika">> } }

\* Data patterns as analyze_data_patterns returns them.
DataPatterns(has_temporal, temporal_columns, has_geo, geo_columns, total_rows, suggested) ==
    [has_temporal_data |-> has_temporal, temporal_columns |-> temporal_columns,
     has_geographical_data |-> has_geo, geographical_columns |-> geo_columns,
     total_estimated_rows |-> total_rows, data_types_distribution |-> <<>>,
     suggested_partitioning |-> suggested]

LlmPatterns ==
    { DataPatterns(TRUE, <<"created_at">>, FALSE, <<>>, 2000000, Some("monthly")),
      DataPatterns(FALSE, <<>>, FALSE, <<>>, 500, None) }

BackendBehaviours ==
    {BackendRaise, BackendStatus} \cup { BackendOk(t) : t \in Replies \cup { <<>> } }

\* The backends whose behaviour the call can observe; the others keep a
\* fixed behaviour.
YandexAsked(yk, sources) ==
    yk /\ \A i \in 1..Len(sources) : ~IsNone(sources[i].schema_info)

DeepseekAsked(yk, dk, sources, yandex) ==
    /\ dk
    /\ \A i \in 1..Len(sources) : ~IsNone(sources[i].schema_info)
    /\ (yk => \/ yandex.kind = "status"
              \/ yandex.kind = "ok" /\ yandex.text = <<>>)

LlmNoRet == [exc |-> "", val |-> None, calls |-> <<>>]

LlmIdleCall ==
    [sources |-> <<>>, business_requirements |-> BusinessRequirements(<<>>, "daily"),
     data_patterns |-> DataPatterns(FALSE, <<>>, FALSE, <<>>, 0, None),
     world |-> [yandex |-> BackendStatus, deepseek |-> BackendStatus]]

\* No second request.
OtherIdle ==
    [sources |-> <<>>, business_requirements |-> BusinessRequirements(<<>>, "daily"),
     world |-> [yandex |-> BackendStatus, deepseek |-> BackendStatus],
     step |-> "idle", at |-> <<>>,
     relationships |-> [exc |-> "", val |-> None],
     patterns |-> [exc |-> "", val |-> None],
     recommendations |-> LlmNoRet]

\* The second request of SpecConcurrent runs between two awaits: no other
\* coroutine of the event loop takes a step until it is at an await or done.
OtherRunning == other.step \in {"relationships", "patterns", "recommend"}

\* The self of llm_service.
Self == [yandex_api_key |-> yandex_api_key, deepseek_api_key |-> deepseek_api_key]

\* llm_service.generate_recommendations(...) is called and runs up to its
\* first await, or to its end when it awaits nothing.
GenerateRecommendations ==
    /\ pc.llm = "ready"
    /\ LET part == generate_recommendations_enter(
                       Self, llm_call.sources, llm_call.business_requirements,
                       llm_call.data_patterns)
       IN  /\ llm_ret' = part.ret
           /\ pc' = [pc EXCEPT !.llm = part.at]
    /\ UNCHANGED <<prof_call, prof_ret, yandex_api_key, deepseek_api_key, llm_call,
                   an_sources, rel_ret, pat_ret, rule_call, rule_ret, rule_log, other, sql_ret, http_call, http_ret, objects>>

\* YandexGPT answers the POST (or the POST fails): client.post is over and
\* the call leaves the "async with" block of _call_yandex_gpt, where it
\* gives way once more.
YandexAnswers ==
    /\ pc.llm = "yandex"
    /\ ~OtherRunning
    /\ pc' = [pc EXCEPT !.llm = "yandex_closing"]
    /\ UNCHANGED <<prof_call, prof_ret, yandex_api_key, deepseek_api_key, llm_call, llm_ret,
                   an_sources, rel_ret, pat_ret, rule_call, rule_ret, rule_log, other, sql_ret, http_call, http_ret, objects>>

\* The client of _call_yandex_gpt is closed; _call_yandex_gpt returns or
\* raises, and the call runs on to its next await or to its end.
YandexClientCloses ==
    /\ pc.llm = "yandex_closing"
    /\ ~OtherRunning
    /\ LET part == generate_recommendations_yandex(
                       Self, llm_call.sources, llm_call.business_requirements,
                       llm_call.data_patterns, llm_call.world)
       IN  /\ llm_ret' = part.ret
           /\ pc' = [pc EXCEPT !.llm = part.at]
    /\ UNCHANGED <<prof_call, prof_ret, yandex_api_key, deepseek_api_key, llm_call,
                   an_sources, rel_ret, pat_ret, rule_call, rule_ret, rule_log, other, sql_ret, http_call, http_ret, objects>>

\* DeepSeek answers the POST (or the POST fails): client.post is over and
\* the call leaves the "async with" block of _call_deepseek, where it gives
\* way once more.
DeepseekAnswers ==
    /\ pc.llm = "deepseek"
    /\ ~OtherRunning
    /\ pc' = [pc EXCEPT !.llm = "deepseek_closing"]
    /\ UNCHANGED <<prof_call, prof_ret, yandex_api_key, deepseek_api_key, llm_call, llm_ret,
                   an_sources, rel_ret, pat_ret, rule_call, rule_ret, rule_log, other, sql_ret, http_call, http_ret, objects>>

\* The client of _call_deepseek is closed; _call_deepseek returns or raises,
\* and the call runs to its end.
DeepseekClientCloses ==
    /\ pc.llm = "deepseek_closing"
    /\ ~OtherRunning
    /\ LET part == generate_recommendations_deepseek(
                       Self, llm_call.sources, llm_call.business_requirements,
                       llm_call.data_patterns, llm_call.world, llm_ret.calls)
       IN  /\ llm_ret' = part.ret
           /\ pc' = [pc EXCEPT !.llm = part.at]
    /\ UNCHANGED <<prof_call, prof_ret, yandex_api_key, deepseek_api_key, llm_call,
                   an_sources, rel_ret, pat_ret, rule_call, rule_ret, rule_log, other, sql_ret, http_call, http_ret, objects>>

(***************************************************************************)
(* Python strings.  A column name or keyword is a TLA+ string; Chars gives *)
(* its characters, on which lower() and the "in" test work.                *)
(***************************************************************************)
Chars(str) ==
    CASE str = "user_id"       -> <<"u", "s", "e", "r", "_", "i", "d">>
      [] str = "name"          -> <<"n", "a", "m", "e">>
      [] str = "created_at"    -> <<"c", "r", "e", "a", "t", "e", "d", "_", "a", "t">>
      [] str = "amount"        -> <<"a", "m", "o", "u", "n", "t">>
      [] str = "Country"       -> <<"C", "o", "u", "n", "t", "r", "y">>
      [] str = "ID"            -> <<"I", "D">>
      [] str = "zip_code"      -> <<"z", "i", "p", "_", "c", "o", "d", "e">>
      [] str = "api_key"       -> <<"a", "p", "i", "_", "k", "e", "y">>
      [] str = "uuid"          -> <<"u", "u", "i", "d">>
      [] str = "UPDATED"       -> <<"U", "P", "D", "A", "T", "E", "D">>
      [] str = "value"         -> <<"v", "a", "l", "u", "e">>
      [] str = "order_id"      -> <<"o", "r", "d", "e", "r", "_", "i", "d">>
      [] str = "customer_id"   -> <<"c", "u", "s", "t", "o", "m", "e", "r", "_", "i", "d">>
      [] str = "id"            -> <<"i", "d">>
      [] str = "key"           -> <<"k", "e", "y">>
      [] str = "code"          -> <<"c", "o", "d", "e">>
      [] str = "date"          -> <<"d", "a", "t", "e">>
      [] str = "time"          -> <<"t", "i", "m", "e">>
      [] str = "created"       -> <<"c", "r", "e", "a", "t", "e", "d">>
      [] str = "updated"       -> <<"u", "p", "d", "a", "t", "e", "d">>
      [] str = "timestamp"     -> <<"t", "i", "m", "e", "s", "t", "a", "m", "p">>
      [] str = "lat"           -> <<"l", "a", "t">>
      [] str = "lon"           -> <<"l", "o", "n">>
      [] str = "city"          -> <<"c", "i", "t", "y">>
      [] str = "country"       -> <<"c", "o", "u", "n", "t", "r", "y">>
      [] str = "region"        -> <<"r", "e", "g", "i", "o", "n">>
      [] str = "address"       -> <<"a", "d", "d", "r", "e", "s", "s">>

UpperCase == <<"A", "B", "C", "D", "E", "F", "G", "H", "I", "J", "K", "L", "M",
               "N", "O", "P", "Q", "R", "S", "T", "U", "V", "W", "X", "Y", "Z">>
LowerCase == <<"a", "b", "c", "d", "e", "f", "g", "h", "i", "j", "k", "l", "m",
               "n", "o", "p", "q", "r", "s", "t", "u", "v", "w", "x", "y", "z">>

\* str.lower(), on characters.
lower(chars) ==
    [ i \in 1..Len(chars) |->
        IF \E k \in 1..Len(UpperCase) : UpperCase[k] = chars[i]
        THEN LowerCase[CHOOSE k \in 1..Len(UpperCase) : UpperCase[k] = chars[i]]
        ELSE chars[i] ]

\* sub in chars
contains(sub, chars) ==
    \E i \in 0..(Len(chars) - Len(sub)) : SubSeq(chars, i + 1, i + Len(sub)) = sub

\* The column names and the keywords of the model.
Names ==
    {"user_id", "name", "created_at", "amount", "Country", "ID", "zip_code",
     "api_key", "uuid", "UPDATED", "value", "order_id", "customer_id", "country",
     "id"}
Keywords ==
    {"id", "uuid", "key", "code", "date", "time", "created", "updated",
     "timestamp", "lat", "lon", "city", "country", "region", "address"}

\* For each keyword, the names whose lower() contains it (computed once).
LoweredNamesWith ==
    [ keyword \in Keywords |->
        { name \in Names : contains(Chars(keyword), lower(Chars(name))) } ]

\* keyword in name.lower()
in_lower(keyword, name) == name \in LoweredNamesWith[keyword]

\* any(keyword in col.lower() for keyword in keywords)
any_keyword_in(keywords, col) ==
    \E k \in 1..Len(keywords) : in_lower(keywords[k], col)

Max(a, b) == IF a >= b THEN a ELSE b


\* A quotient a / b of two counts, b > 0, as a fraction in lowest terms.
RECURSIVE gcd(_, _)
gcd(a, b) == IF b = 0 THEN a ELSE gcd(b, a % b)

Quotient(a, b) ==
    LET g == gcd(a, b) IN [num |-> a \div g, den |-> b \div g]

\* x < y for two quotients.
less(x, y) == x.num * y.den < y.num * x.den

\* min(x, y)
min_quotient(x, y) == IF less(y, x) THEN y ELSE x

(***************************************************************************)
(* analyzer.py find_relationships                                          *)
(***************************************************************************)
\* "not source.schema_info": None, or a dict without keys.
falsy(schema_info) == IsNone(schema_info) \/ DOMAIN schema_info[1] = {}

\* schemas.py DataRelationship
DataRelationship(source1_id, source2_id, join_type, join_keys, confidence) ==
    [source1_id |-> source1_id, source2_id |-> source2_id, join_type |-> join_type,
     join_keys |-> join_keys, confidence |-> confidence]

\* The patterns in the opposite priority.
priority_patterns_reversed == <<"code", "key", "uuid", "id">>

priority_patterns == <<"id", "uuid", "key", "code">>

\* The common fields whose lowercase name contains the pattern.
matching(pattern, common_fields) ==
    { f \in common_fields : in_lower(pattern, f) }

\* min(unique1.get(field, 0) / max(row_count1, 1), unique2.get(field, 0) / max(row_count2, 1))
uniqueness(field, info1, info2) ==
    min_quotient(Quotient(dict_get(dict_get(info1, "unique_counts", <<>>), field, 0),
                          Max(dict_get(info1, "row_count", 1), 1)),
                 Quotient(dict_get(dict_get(info2, "unique_counts", <<>>), field, 0),
                          Max(dict_get(info2, "row_count", 1), 1)))

\* A key chosen among all the columns of source1, common or not.
identify_primary_key_any_column(common_fields, source1, source2) ==
    { Some(f) : f \in Range(source1.schema_info[1].columns) }

\* analyzer.py _identify_primary_key.  common_fields is a Python set, whose
\* iteration order is not fixed: the operator gives every value the call can
\* return, None or a field, over all iteration orders.
\*   - the first pattern that some field contains: the first such field
\*     iterated, so any field containing it;
\*   - no pattern matches: best_field is replaced whenever a field's
\*     uniqueness exceeds the running maximum (initially 0), so it ends as
\*     the first field iterated among those of the greatest uniqueness if
\*     that is above 0, and stays None if not.
_identify_primary_key(common_fields, source1, source2) ==
    IF \E k \in 1..Len(priority_patterns) : matching(priority_patterns[k], common_fields) # {}
    THEN LET first == CHOOSE k \in 1..Len(priority_patterns) :
                          /\ matching(priority_patterns[k], common_fields) # {}
                          /\ \A j \in 1..(k - 1) : matching(priority_patterns[j], common_fields) = {}
         IN  { Some(f) : f \in matching(priority_patterns[first], common_fields) }
    ELSE IF ~falsy(source1.schema_info) /\ ~falsy(source2.schema_info)
    THEN LET info1 == source1.schema_info[1]
             info2 == source2.schema_info[1]
             best == { f \in common_fields :
                         /\ less(Quotient(0, 1), uniqueness(f, info1, info2))
                         /\ \A g \in common_fields :
                               ~less(uniqueness(f, info1, info2), uniqueness(g, info1, info2)) }
         IN  IF best = {} THEN { None } ELSE { Some(f) : f \in best }
    ELSE IF common_fields # {} THEN { Some(f) : f \in common_fields }
    ELSE { None }

\* The same pairs, last pair first.
RECURSIVE pairs_from_reversed(_, _, _)
pairs_from_reversed(i, j, n) ==
    IF i > n THEN <<>>
    ELSE IF j > n THEN pairs_from_reversed(i + 1, i + 2, n)
    ELSE pairs_from_reversed(i, j + 1, n) \o << <<i, j>> >>

\* The pairs (i, j), i < j <= n, in the order of the two nested loops.
RECURSIVE pairs_from(_, _, _)
pairs_from(i, j, n) ==
    IF i > n THEN <<>>
    ELSE IF j > n THEN pairs_from(i + 1, i + 2, n)
    ELSE << <<i, j>> >> \o pairs_from(i, j + 1, n)

\* The quotient taken over the smaller column set.
confidence_over_min(common_fields, cols1, cols2) ==
    Quotient(Cardinality(common_fields), Min(Cardinality(cols1), Cardinality(cols2)))

\* len(common_fields) / max(len(cols1), len(cols2))
confidence_of(common_fields, cols1, cols2) ==
    Quotient(Cardinality(common_fields), Max(Cardinality(cols1), Cardinality(cols2)))

\* The loop body asking for two common columns before it appends.
relationships_of_pair_two_common(source1, source2) ==
    IF falsy(source1.schema_info) \/ falsy(source2.schema_info) THEN { <<>> }
    ELSE LET cols1 == Range(source1.schema_info[1].columns)
             cols2 == Range(source2.schema_info[1].columns)
             common_fields == cols1 \cap cols2
         IN  IF Cardinality(common_fields) < 2 THEN { <<>> }
             ELSE { << DataRelationship(
                          source1.id, source2.id, "LEFT JOIN",
                          IF IsNone(primary_key) THEN <<>>
                          ELSE [ k \in { primary_key[1] } |-> primary_key[1] ],
                          confidence_of(common_fields, cols1, cols2)) >> :
                    primary_key \in _identify_primary_key(common_fields, source1, source2) }

\* The body of the inner loop for one pair: what it can append to
\* relationships, nothing (<<>>) or one DataRelationship.
relationships_of_pair(source1, source2) ==
    IF falsy(source1.schema_info) \/ falsy(source2.schema_info) THEN { <<>> }
    ELSE LET cols1 == Range(source1.schema_info[1].columns)
             cols2 == Range(source2.schema_info[1].columns)
             common_fields == cols1 \cap cols2
         IN  IF common_fields = {} THEN { <<>> }
             ELSE { << DataRelationship(
                          source1.id, source2.id, "LEFT JOIN",
                          IF IsNone(primary_key) THEN <<>>
                          ELSE [ k \in { primary_key[1] } |-> primary_key[1] ],
                          confidence_of(common_fields, cols1, cols2)) >> :
                    primary_key \in _identify_primary_key(common_fields, source1, source2) }

RECURSIVE relationships_of_pairs(_, _)
relationships_of_pairs(sources, pairs) ==
    IF pairs = <<>> THEN { <<>> }
    ELSE { h \o t : h \in relationships_of_pair(sources[pairs[1][1]], sources[pairs[1][2]]),
                    t \in relationships_of_pairs(sources, Tail(pairs)) }

\* analyzer.py find_relationships: every list the call can return.
find_relationships(sources) ==
    relationships_of_pairs(sources, pairs_from(1, 2, Len(sources)))

(***************************************************************************)
(* analyzer.py analyze_data_patterns                                       *)
(***************************************************************************)
temporal_keywords == <<"date", "time", "created", "updated", "timestamp">>
\* The geographic keywords without country.
geo_keywords_without_country == <<"lat", "lon", "city", "region", "address">>

geo_keywords == <<"lat", "lon", "city", "country", "region", "address">>

\* The temporal test without lower().
is_temporal_case_sensitive(col) ==
    \E k \in 1..Len(temporal_keywords) : contains(Chars(temporal_keywords[k]), Chars(col))

is_temporal(col) == any_keyword_in(temporal_keywords, col)
is_geo(col) == any_keyword_in(geo_keywords, col)

\* total_rows = ..., the total replaced instead of increased.
assign_rows(total_rows, schema_info) == dict_get(schema_info, "row_count", 0)

\* total_rows += source.schema_info.get("row_count", 0)
add_rows(total_rows, schema_info) == total_rows + dict_get(schema_info, "row_count", 0)

\* The loop over the sources: the rows summed, the flags set and the columns
\* appended so far, after the first n sources.
RECURSIVE scan_sources(_, _)
scan_sources(sources, n) ==
    IF n = 0
    THEN [total_rows |-> 0,
          has_temporal_data |-> FALSE, temporal_columns |-> <<>>,
          has_geographical_data |-> FALSE, geographical_columns |-> <<>>]
    ELSE LET before == scan_sources(sources, n - 1)
             source == sources[n]
         IN  IF falsy(source.schema_info) THEN before
             ELSE LET columns == source.schema_info[1].columns
                  IN  [total_rows |-> add_rows(before.total_rows, source.schema_info[1]),
                       has_temporal_data |->
                           before.has_temporal_data
                           \/ \E i \in 1..Len(columns) : is_temporal(columns[i]),
                       temporal_columns |->
                           before.temporal_columns \o SelectSeq(columns, is_temporal),
                       has_geographical_data |->
                           before.has_geographical_data
                           \/ \E i \in 1..Len(columns) : is_geo(columns[i]),
                       geographical_columns |->
                           before.geographical_columns \o SelectSeq(columns, is_geo)]

\* The suggestion with both thresholds inclusive.
suggest_partitioning_inclusive(has_temporal_data, total_rows) ==
    IF has_temporal_data
    THEN IF total_rows >= 1000000 THEN Some("monthly")
         ELSE IF total_rows >= 100000 THEN Some("yearly")
         ELSE None
    ELSE None

\* The partitioning suggested at the end of analyze_data_patterns.
suggest_partitioning(has_temporal_data, total_rows) ==
    IF has_temporal_data
    THEN IF total_rows > 1000000 THEN Some("monthly")
         ELSE IF total_rows > 100000 THEN Some("yearly")
         ELSE None
    ELSE None

\* analyze_data_patterns with a patterns dict kept between calls: the
\* temporal columns another request has found are still in it.
analyze_data_patterns_kept_dict(sources) ==
    LET scanned == scan_sources(sources, Len(sources))
        kept == IF IsNone(other.patterns.val) THEN <<>>
                ELSE other.patterns.val[1].temporal_columns
    IN  DataPatterns(scanned.has_temporal_data \/ kept # <<>>,
                     kept \o scanned.temporal_columns,
                     scanned.has_geographical_data,
                     scanned.geographical_columns,
                     scanned.total_rows,
                     suggest_partitioning(scanned.has_temporal_data \/ kept # <<>>,
                                          scanned.total_rows))

\* analyzer.py analyze_data_patterns
analyze_data_patterns(sources) ==
    LET scanned == scan_sources(sources, Len(sources))
    IN  DataPatterns(scanned.has_temporal_data,
                     scanned.temporal_columns,
                     scanned.has_geographical_data,
                     scanned.geographical_columns,
                     scanned.total_rows,
                     suggest_partitioning(scanned.has_temporal_data, scanned.total_rows))

(***************************************************************************)
(* The sources find_relationships and analyze_data_patterns are called     *)
(* with.  schema_info is the dict of a SchemaInfo (the keys the two        *)
(* functions read), None, or a dict without keys.                          *)
(***************************************************************************)
Profiled(columns, row_count, unique_counts) ==
    Some([columns |-> columns, row_count |-> row_count, unique_counts |-> unique_counts])

DataSourceConfig(id, type, schema_info) ==
    [id |-> id, name |-> id, type |-> type, config |-> NoCall.config,
     schema_info |-> schema_info]

\* A source whose schema_info is the empty dict and whose file cannot be
\* read.
BlankSource ==
    [id |-> "blank", name |-> "blank", type |-> "csv",
     config |-> Config("file_path", FALSE, TRUE, TRUE, TRUE, TRUE, TRUE, NoContent),
     schema_info |-> Some(<<>>)]

AnCatalog ==
    { DataSourceConfig("users", "csv",
          Profiled(<<"user_id", "name">>, 50000,
                   [user_id |-> 10, name |-> 40000])),
      DataSourceConfig("events", "postgresql",
          Profiled(<<"name", "user_id", "created_at">>, 1000000,
                   [name |-> 40000, user_id |-> 30000, created_at |-> 1000000])),
      DataSourceConfig("sales", "csv",
          Profiled(<<"name", "amount">>, 500000,
                   [name |-> 100, amount |-> 400000])),
      DataSourceConfig("sales2", "excel",
          Profiled(<<"amount", "name">>, 500000,
                   [amount |-> 100, name |-> 100])),
      DataSourceConfig("refunds", "json",
          Profiled(<<"amount", "name", "Country">>, 50000,
                   [amount |-> 40000, name |-> 10, Country |-> 5])),
      DataSourceConfig("ledger", "csv",
          Profiled(<<"amount", "name">>, 0, <<>>)),
      DataSourceConfig("codes", "csv",
          Profiled(<<"zip_code", "api_key", "uuid">>, 1,
                   [zip_code |-> 1, api_key |-> 1, uuid |-> 1])),
      DataSourceConfig("keys", "json",
          Profiled(<<"api_key", "zip_code", "created_at">>, 50000,
                   [api_key |-> 50000, zip_code |-> 300, created_at |-> 50000])),
      DataSourceConfig("geo", "excel",
          Profiled(<<"ID", "Country", "UPDATED">>, 500000,
                   [ID |-> 500000, Country |-> 200, UPDATED |-> 1000])),
      DataSourceConfig("metrics", "csv",
          Profiled(<<"created_at", "value">>, 2000000,
                   [created_at |-> 2000000, value |-> 1500])),
      RawSource,
      BlankSource }

AnSourceLists == UNION { [1..k -> AnCatalog] : k \in 0..MaxAnSources }

\* main.py lines 109-111 (and 89-91): every source whose schema_info is
\* None or empty gets the dict of the SchemaInfo analyze_source returns.
profile_sources(sources) ==
    [ i \in 1..Len(sources) |->
        IF falsy(sources[i].schema_info)
        THEN [sources[i] EXCEPT !.schema_info = Some(analyze_source(sources[i]).val[1])]
        ELSE sources[i] ]

\* What the caller of an analysis function observes.
AnReturn(v) == [exc |-> "", val |-> Some(v)]
AnNoRet == [exc |-> "", val |-> None]

\* One call of analyzer.find_relationships(an_sources): any of the lists the
\* iteration order of the column sets allows.  In a request handler the
\* pattern analysis waits for it (main.py lines 114, 117).
FindRelationships ==
    /\ pc.relationships = "ready"
    /\ \E relationships \in find_relationships(an_sources) :
          rel_ret' = AnReturn(relationships)
    /\ pc' = [pc EXCEPT !.relationships = "done",
                        !.patterns = IF @ = "waiting" THEN "ready" ELSE @]
    /\ UNCHANGED <<prof_call, prof_ret, yandex_api_key, deepseek_api_key, llm_call, llm_ret,
                   an_sources, pat_ret, rule_call, rule_ret, rule_log, other, sql_ret, http_call, http_ret, objects>>

\* One call of analyzer.analyze_data_patterns(an_sources).
AnalyzeDataPatterns ==
    /\ pc.patterns = "ready"
    /\ pat_ret' = AnReturn(analyze_data_patterns(an_sources))
    /\ pc' = [pc EXCEPT !.patterns = "done"]
    /\ UNCHANGED <<prof_call, prof_ret, yandex_api_key, deepseek_api_key, llm_call, llm_ret,
                   an_sources, rel_ret, rule_call, rule_ret, rule_log, other, sql_ret, http_call, http_ret, objects>>

(***************************************************************************)
(* The arguments _generate_rule_based_recommendations is called with.      *)
(***************************************************************************)
\* Totals on both sides of the two thresholds.
RuleRowCounts == {0, 100000, 100001, 1000000, 1000001, 2000000}

\* target_metrics: none, keywords, other words, a keyword in another case.
RuleMetrics ==
    { <<>>, <<"analitika">>, <<"revenue">>, <<"revenue", "otchet">>, <<"Analitika">> }

\* Patterns as analyze_data_patterns returns them: the flag, the list and
\* the suggestion agree.
RulePatterns ==
    { DataPatterns(FALSE, <<>>, FALSE, <<>>, n, None) : n \in RuleRowCounts }
    \cup { DataPatterns(TRUE, cols, FALSE, <<>>, n, suggest_partitioning(TRUE, n)) :
             cols \in { <<"created_at">>, <<"created_at", "UPDATED", "created_at">> },
             n \in RuleRowCounts }

RuleSourceLists == { <<>>, <<OrdersSource>>, <<RawSource>> }

RuleIdleCall ==
    [sources |-> <<>>, business_requirements |-> BusinessRequirements(<<>>, "daily"),
     data_patterns |-> DataPatterns(FALSE, <<>>, FALSE, <<>>, 0, None)]

\* One call of llm_service._generate_rule_based_recommendations(...).
GenerateRuleBased ==
    /\ pc.rules = "ready"
    /\ rule_ret' = AnReturn(_generate_rule_based_recommendations(
                               rule_call.sources, rule_call.business_requirements,
                               rule_call.data_patterns))
    /\ pc' = [pc EXCEPT !.rules = "done"]
    /\ UNCHANGED <<prof_call, prof_ret, yandex_api_key, deepseek_api_key, llm_call, llm_ret,
                   an_sources, rel_ret, pat_ret, rule_call, rule_log, other, sql_ret, http_call, http_ret, objects>>

(***************************************************************************)
(* main.py: the /upload-csv and /test-connection operations.               *)
(*                                                                         *)
(* A file name and a message are texts: a file name is the sequence of its *)
(* characters, a message the sequence of its pieces.  An exception is its  *)
(* class, the status code and detail of an HTTPException, and for every    *)
(* other class a message that stands for what the library wrote.           *)
(***************************************************************************)
\* str.endswith
endswith(chars, suffix) ==
    /\ Len(suffix) <= Len(chars)
    /\ SubSeq(chars, Len(chars) - Len(suffix) + 1, Len(chars)) = suffix

\* fastapi.HTTPException(status_code=..., detail=...)
HTTPException(status_code, detail) ==
    [type |-> "HTTPException", status_code |-> status_code, detail |-> <<detail>>]

\* An exception of a library class.
LibraryError(type) == [type |-> type, status_code |-> 0, detail |-> <<type>>]

\* str(e).  An HTTPException prints as "{status_code}: {detail}", and as ""
\* in the releases of the framework whose HTTPException hands no argument
\* to Exception; the repository pins no release, so both can be produced.
str(e) ==
    IF e.type = "HTTPException"
    THEN { <<ToString(e.status_code), ": ">> \o e.detail, <<>> }
    ELSE { e.detail }

\* What a try block did: the exception it raised (None when it returned),
\* the value it returned, and the sources it had analyze_source profile.
HttpRaise(e, analyzed) == [raised |-> Some(e), val |-> None, analyzed |-> analyzed]

HttpReturn(v, analyzed) == [raised |-> None, val |-> Some(v), analyzed |-> analyzed]

\* main.py upload_csv_file, the try block (lines 56-78).
upload_csv_file_try(file) ==
    IF ~endswith(file.filename, <<".", "c", "s", "v">>)
    THEN HttpRaise(HTTPException(400, "File must be a CSV"), <<>>)
    ELSE LET source_config ==
                 [type |-> "csv",
                  config |-> Config("file_data", file.readable, TRUE, TRUE, TRUE, TRUE,
                                    TRUE, file.content)]
             schema_info == analyze_source(source_config)
         IN  HttpReturn([filename |-> file.filename,
                         schema |-> schema_info.val[1],
                         status |-> "success"],
                        <<source_config>>)

\* main.py upload_csv_file: "except Exception" answers whatever the try
\* block raised with HTTPException(500, detail=str(e)).  The set of the
\* outcomes the call can have.
upload_csv_file(file) ==
    LET r == upload_csv_file_try(file)
    IN  IF ~IsNone(r.raised)
        THEN { [raised |-> Some([type |-> "HTTPException", status_code |-> 500,
                                 detail |-> text]),
                val |-> None, analyzed |-> r.analyzed] : text \in str(r.raised[1]) }
        ELSE { r }

\* main.py test_database_connection, the try block (lines 160-192).
test_database_connection_try(config) ==
    IF config.type = Some("postgresql")
    THEN IF ~config.conn_keys THEN HttpRaise(LibraryError("KeyError"), <<>>)
         ELSE IF ~config.engine_ok THEN HttpRaise(LibraryError("ArgumentError"), <<>>)
         ELSE IF ~config.connect_ok THEN HttpRaise(LibraryError("OperationalError"), <<>>)
         ELSE IF ~config.query_ok THEN HttpRaise(LibraryError("ProgrammingError"), <<>>)
         ELSE HttpReturn([status |-> "success", message |-> <<"Connection successful">>],
                         <<>>)
    ELSE IF config.type = Some("clickhouse")
    THEN IF ~config.host_key THEN HttpRaise(LibraryError("KeyError"), <<>>)
         ELSE IF ~config.connect_ok THEN HttpRaise(LibraryError("NetworkError"), <<>>)
         ELSE IF ~config.query_ok THEN HttpRaise(LibraryError("ServerException"), <<>>)
         ELSE HttpReturn([status |-> "success", message |-> <<"Connection successful">>],
                         <<>>)
    ELSE HttpRaise(HTTPException(400, "Unsupported database type"), <<>>)

\* main.py test_database_connection: "except Exception" returns the error
\* body for whatever the try block raised.  The set of the outcomes.
test_database_connection(config) ==
    LET r == test_database_connection_try(config)
    IN  IF ~IsNone(r.raised)
        THEN { HttpReturn([status |-> "error", message |-> text], r.analyzed) :
               text \in str(r.raised[1]) }
        ELSE { r }

\* The framework's answer to what the operation did: an HTTPException that
\* escaped becomes a response with its status code and detail, a returned
\* value becomes the body of a 200 response.
respond(outcome) ==
    IF ~IsNone(outcome.raised)
    THEN [status_code |-> outcome.raised[1].status_code,
          detail |-> Some(outcome.raised[1].detail),
          body |-> None, analyzed |-> outcome.analyzed]
    ELSE [status_code |-> 200, detail |-> None,
          body |-> outcome.val, analyzed |-> outcome.analyzed]

\* The names of the uploaded files.
Filenames ==
    { <<"d", "a", "t", "a", ".", "c", "s", "v">>,
      <<"d", "a", "t", "a", ".", "C", "S", "V">>,
      <<"d", "a", "t", "a", ".", "t", "x", "t">>,
      <<"d", "a", "t", "a", ".", "c", "s", "v", ".", "b", "a", "k">>,
      <<"d", "a", "t", "a", "c", "s", "v">>,
      <<".", "c", "s", "v">>,
      <<"c", "s", "v">>,
      <<>> }

\* UploadFile: the name, whether the content decodes, and the content.
UploadFile(filename, readable, content) ==
    [filename |-> filename, readable |-> readable, content |-> content]

\* The config of /test-connection together with the world it points into:
\*   type        config.get("type"), None when the key is absent
\*   conn_keys   username, password, host and database are all present
\*   host_key    host is present
\*   engine_ok   create_engine accepts the connection string
\*   connect_ok  the server accepts the connection
\*   query_ok    the server answers SELECT 1
ConnectionConfig(type, conn_keys, host_key, engine_ok, connect_ok, query_ok) ==
    [type |-> type, conn_keys |-> conn_keys, host_key |-> host_key,
     engine_ok |-> engine_ok, connect_ok |-> connect_ok, query_ok |-> query_ok]

ConnectionTypes == {Some("postgresql"), Some("clickhouse"), Some("mysql"), Some(""), None}

NoFile == UploadFile(<<>>, TRUE, NoContent)

NoConnection == ConnectionConfig(None, TRUE, TRUE, TRUE, TRUE, TRUE)

\* The requests the two operations are called with.
HttpRequests ==
    { [endpoint |-> "/upload-csv", file |-> UploadFile(n, r, c), config |-> NoConnection] :
      n \in Filenames, r \in BOOLEAN, c \in TabularContents }
    \cup
    { [endpoint |-> "/test-connection", file |-> NoFile,
       config |-> ConnectionConfig(t, k, h, e, c, q)] :
      t \in ConnectionTypes, k \in BOOLEAN, h \in BOOLEAN, e \in BOOLEAN,
      c \in BOOLEAN, q \in BOOLEAN }

HttpIdleCall == [endpoint |-> "", file |-> NoFile, config |-> NoConnection]

HttpNoRet == [status_code |-> 0, detail |-> None, body |-> None, analyzed |-> <<>>]

\* One call of POST /upload-csv.
UploadCsvFile ==
    /\ pc.http = "ready"
    /\ http_call.endpoint = "/upload-csv"
    /\ \E outcome \in upload_csv_file(http_call.file) : http_ret' = respond(outcome)
    /\ pc' = [pc EXCEPT !.http = "done"]
    /\ UNCHANGED <<prof_call, prof_ret, yandex_api_key, deepseek_api_key, llm_call, llm_ret,
                   an_sources, rel_ret, pat_ret, rule_call, rule_ret, rule_log, other,
                   sql_ret, http_call, objects>>

\* One call of POST /test-connection.
TestDatabaseConnection ==
    /\ pc.http = "ready"
    /\ http_call.endpoint = "/test-connection"
    /\ \E outcome \in test_database_connection(http_call.config) :
           http_ret' = respond(outcome)
    /\ pc' = [pc EXCEPT !.http = "done"]
    /\ UNCHANGED <<prof_call, prof_ret, yandex_api_key, deepseek_api_key, llm_call, llm_ret,
                   an_sources, rel_ret, pat_ret, rule_call, rule_ret, rule_log, other,
                   sql_ret, http_call, objects>>

(***************************************************************************)
(* Specifications.  The components hold no state between calls, so each    *)
(* specification starts from the arguments of one call and performs it.    *)
(***************************************************************************)
\* The Schema Profiler: one analyze_source call on any source.
InitProfiler ==
    /\ pc = [analyzer |-> "ready", llm |-> "idle", relationships |-> "idle",
             patterns |-> "idle", rules |-> "idle", sql |-> "idle",
             http |-> "idle"]
    /\ prof_call \in ProfSources
    /\ prof_ret = NoRet
    /\ yandex_api_key = FALSE
    /\ deepseek_api_key = FALSE
    /\ llm_call = LlmIdleCall
    /\ llm_ret = LlmNoRet
    /\ an_sources = <<>>
    /\ rel_ret = AnNoRet
    /\ pat_ret = AnNoRet
    /\ rule_call = RuleIdleCall
    /\ rule_ret = AnNoRet
    /\ rule_log = <<>>
    /\ other = OtherIdle
    /\ sql_ret = AnNoRet
    /\ http_call = HttpIdleCall
    /\ http_ret = HttpNoRet
    /\ objects = <<>>

NextProfiler == AnalyzeSource

SpecProfiler == InitProfiler /\ [][NextProfiler]_vars

\* The Recommendation Engine: the service is constructed with or without
\* each API key, then called once.
InitLLM ==
    /\ pc = [analyzer |-> "idle", llm |-> "ready", relationships |-> "idle",
             patterns |-> "idle", rules |-> "idle", sql |-> "idle",
             http |-> "idle"]
    /\ prof_call = NoCall
    /\ prof_ret = NoRet
    /\ yandex_api_key \in BOOLEAN
    /\ deepseek_api_key \in BOOLEAN
    /\ \E sources \in LlmSourceLists, req \in LlmRequirements, pat \in LlmPatterns :
          \E y \in IF YandexAsked(yandex_api_key, sources)
                   THEN BackendBehaviours ELSE {BackendStatus} :
             \E d \in IF DeepseekAsked(yandex_api_key, deepseek_api_key, sources, y)
                      THEN BackendBehaviours ELSE {BackendStatus} :
                llm_call = [sources |-> sources, business_requirements |-> req,
                            data_patterns |-> pat,
                            world |-> [yandex |-> y, deepseek |-> d]]
    /\ llm_ret = LlmNoRet
    /\ an_sources = <<>>
    /\ rel_ret = AnNoRet
    /\ pat_ret = AnNoRet
    /\ rule_call = RuleIdleCall
    /\ rule_ret = AnNoRet
    /\ rule_log = <<>>
    /\ other = OtherIdle
    /\ sql_ret = AnNoRet
    /\ http_call = HttpIdleCall
    /\ http_ret = HttpNoRet
    /\ objects = <<>>

NextLLM ==
    \/ GenerateRecommendations
    \/ YandexAnswers
    \/ YandexClientCloses
    \/ DeepseekAnswers
    \/ DeepseekClientCloses

SpecLLM == InitLLM /\ [][NextLLM]_vars

\* The Relationship Detector and the pattern analysis: both are called once,
\* in either order, on the same list of sources, as main.py does.
InitAnalysis ==
    /\ pc = [analyzer |-> "idle", llm |-> "idle", relationships |-> "ready",
             patterns |-> "ready", rules |-> "idle", sql |-> "idle",
             http |-> "idle"]
    /\ prof_call = NoCall
    /\ prof_ret = NoRet
    /\ yandex_api_key = FALSE
    /\ deepseek_api_key = FALSE
    /\ llm_call = LlmIdleCall
    /\ llm_ret = LlmNoRet
    /\ an_sources \in AnSourceLists
    /\ rel_ret = AnNoRet
    /\ pat_ret = AnNoRet
    /\ rule_call = RuleIdleCall
    /\ rule_ret = AnNoRet
    /\ rule_log = <<>>
    /\ other = OtherIdle
    /\ sql_ret = AnNoRet
    /\ http_call = HttpIdleCall
    /\ http_ret = HttpNoRet
    /\ objects = <<>>

NextAnalysis == FindRelationships \/ AnalyzeDataPatterns

SpecAnalysis == InitAnalysis /\ [][NextAnalysis]_vars

\* The rule-based strategy, called once on its own.
InitRules ==
    /\ pc = [analyzer |-> "idle", llm |-> "idle", relationships |-> "idle",
             patterns |-> "idle", rules |-> "ready", sql |-> "idle",
             http |-> "idle"]
    /\ prof_call = NoCall
    /\ prof_ret = NoRet
    /\ yandex_api_key = FALSE
    /\ deepseek_api_key = FALSE
    /\ llm_call = LlmIdleCall
    /\ llm_ret = LlmNoRet
    /\ an_sources = <<>>
    /\ rel_ret = AnNoRet
    /\ pat_ret = AnNoRet
    /\ rule_call \in [sources : RuleSourceLists,
                       business_requirements :
                           { BusinessRequirements(m, f) : m \in RuleMetrics,
                                                          f \in UpdateFrequency },
                       data_patterns : RulePatterns]
    /\ rule_ret = AnNoRet
    /\ rule_log = <<>>
    /\ other = OtherIdle
    /\ sql_ret = AnNoRet
    /\ http_call = HttpIdleCall
    /\ http_ret = HttpNoRet
    /\ objects = <<>>

NextRules == GenerateRuleBased

SpecRules == InitRules /\ [][NextRules]_vars

\* The rule-based strategy called again and again on the same LLMService:
\* the caller files the finished call and issues the next one, on dicts of
\* data patterns it built once and does not write to.  temporal_columns is
\* the place of the dict's list in the store.
RepeatPatterns ==
    { DataPatterns(FALSE, 1, FALSE, <<>>, 500, None),
      DataPatterns(TRUE, 2, FALSE, <<>>, 100001, Some("yearly")),
      DataPatterns(TRUE, 3, FALSE, <<>>, 2000000, Some("monthly")),
      DataPatterns(TRUE, 4, FALSE, <<>>, 100001, Some("yearly")) }

RepeatCalls ==
    [sources : { <<>>, <<OrdersSource>> },
     business_requirements : { BusinessRequirements(<<>>, "daily"),
                               BusinessRequirements(<<"analitika">>, "hourly") },
     data_patterns : RepeatPatterns]

\* One call of llm_service._generate_rule_based_recommendations(...) on the
\* lists of the store.
GenerateRuleBasedOnObjects ==
    /\ pc.rules = "ready"
    /\ LET call == _generate_rule_based_recommendations_on(
                       objects, rule_call.sources, rule_call.business_requirements,
                       rule_call.data_patterns)
       IN  /\ objects' = call.objects
           /\ rule_ret' = AnReturn(call.val)
    /\ pc' = [pc EXCEPT !.rules = "done"]
    /\ UNCHANGED <<prof_call, prof_ret, yandex_api_key, deepseek_api_key, llm_call, llm_ret,
                   an_sources, rel_ret, pat_ret, rule_call, rule_log, other, sql_ret, http_call, http_ret>>

CallRuleBasedAgain ==
    /\ pc.rules = "done"
    /\ Len(rule_log) < MaxRuleCalls - 1
    /\ rule_log' = Append(rule_log, [call |-> rule_call, ret |-> rule_ret])
    /\ rule_call' \in RepeatCalls
    /\ pc' = [pc EXCEPT !.rules = "ready"]
    /\ UNCHANGED <<prof_call, prof_ret, yandex_api_key, deepseek_api_key, llm_call, llm_ret,
                   an_sources, rel_ret, pat_ret, rule_ret, other, sql_ret, http_call, http_ret, objects>>

InitRulesRepeated ==
    /\ pc = [analyzer |-> "idle", llm |-> "idle", relationships |-> "idle",
             patterns |-> "idle", rules |-> "ready", sql |-> "idle",
             http |-> "idle"]
    /\ prof_call = NoCall
    /\ prof_ret = NoRet
    /\ yandex_api_key = FALSE
    /\ deepseek_api_key = FALSE
    /\ llm_call = LlmIdleCall
    /\ llm_ret = LlmNoRet
    /\ an_sources = <<>>
    /\ rel_ret = AnNoRet
    /\ pat_ret = AnNoRet
    /\ rule_call \in RepeatCalls
    /\ rule_ret = AnNoRet
    /\ rule_log = <<>>
    /\ other = OtherIdle
    /\ sql_ret = AnNoRet
    /\ http_call = HttpIdleCall
    /\ http_ret = HttpNoRet
    /\ objects = RepeatObjects

NextRulesRepeated == GenerateRuleBasedOnObjects \/ CallRuleBasedAgain

SpecRulesRepeated == InitRulesRepeated /\ [][NextRulesRepeated]_vars

\* The analysis of one /generate-recommendations request (main.py): the
\* relationships and the patterns of the request's sources, then the
\* rule-based strategy on those patterns.
CustomersSource ==
    DataSourceConfig("customers", "postgresql",
        Profiled(<<"customer_id", "name", "country">>, 10000,
                 [customer_id |-> 10000, name |-> 9000, country |-> 40]))

PipelineCatalog == AnCatalog \cup { OrdersSource, CustomersSource }

PipelineSourceLists == UNION { [1..k -> PipelineCatalog] : k \in 0..MaxPipelineSources }

PipelineRequirements == { BusinessRequirements(m, "daily") : m \in RuleMetrics }

\* The handler of /generate-recommendations (main.py lines 104-124).  It runs
\* without giving way from its first line to the first await inside
\* llm_service.generate_recommendations: the sources are profiled, then
\* find_relationships, analyze_data_patterns and generate_recommendations
\* are called, in this order.
\*
\* The first request is between two awaits.
FirstRunning == pc.analyzer = "done" /\ pc.llm = "waiting"

\* main.py lines 109-111: the handler starts and profiles the sources of the
\* request that have no schema_info.
ProfileSources ==
    /\ pc.analyzer = "ready"
    /\ pc.relationships = "waiting"
    /\ ~OtherRunning
    /\ an_sources' = profile_sources(an_sources)
    /\ pc' = [pc EXCEPT !.analyzer = "done", !.relationships = "ready"]
    /\ UNCHANGED <<prof_call, prof_ret, yandex_api_key, deepseek_api_key, llm_call, llm_ret,
                   rel_ret, pat_ret, rule_call, rule_ret, rule_log, other, sql_ret,
                   http_call, http_ret, objects>>

\* main.py lines 120-124: llm_service.generate_recommendations is called on
\* the sources and on the patterns found for them, and runs up to its first
\* await, or to its end when it awaits nothing.
RecommendForRequest ==
    /\ pc.relationships = "done"
    /\ pc.patterns = "done"
    /\ pc.llm = "waiting"
    /\ llm_call' = [llm_call EXCEPT !.sources = an_sources,
                                    !.data_patterns = pat_ret.val[1]]
    /\ LET part == generate_recommendations_enter(
                       Self, an_sources, llm_call.business_requirements, pat_ret.val[1])
       IN  /\ llm_ret' = part.ret
           /\ pc' = [pc EXCEPT !.llm = part.at]
    /\ UNCHANGED <<prof_call, prof_ret, yandex_api_key, deepseek_api_key,
                   an_sources, rel_ret, pat_ret, rule_call, rule_ret, rule_log, other, sql_ret, http_call, http_ret, objects>>

\* One request served by a llm_service without API keys.
InitPipeline ==
    /\ pc = [analyzer |-> "ready", llm |-> "waiting", relationships |-> "waiting",
             patterns |-> "waiting", rules |-> "idle", sql |-> "idle",
             http |-> "idle"]
    /\ prof_call = NoCall
    /\ prof_ret = NoRet
    /\ yandex_api_key = FALSE
    /\ deepseek_api_key = FALSE
    /\ \E req \in PipelineRequirements :
          llm_call = [LlmIdleCall EXCEPT !.business_requirements = req]
    /\ llm_ret = LlmNoRet
    /\ an_sources \in PipelineSourceLists
    /\ rel_ret = AnNoRet
    /\ pat_ret = AnNoRet
    /\ rule_call = RuleIdleCall
    /\ rule_ret = AnNoRet
    /\ rule_log = <<>>
    /\ other = OtherIdle
    /\ sql_ret = AnNoRet
    /\ http_call = HttpIdleCall
    /\ http_ret = HttpNoRet
    /\ objects = <<>>

NextPipeline ==
    ProfileSources \/ FindRelationships \/ AnalyzeDataPatterns \/ RecommendForRequest

SpecPipeline == InitPipeline /\ [][NextPipeline]_vars

\* Two /generate-recommendations requests served by the same module-level
\* analyzer and llm_service on one event loop.  The first request uses
\* an_sources, rel_ret, pat_ret, llm_call and llm_ret; the second one is the
\* record other.  A request gives way to the other one only inside the
\* "async with" blocks of generate_recommendations: while it awaits the
\* answer, and when it leaves the block.  The answers of the backends come
\* in any order.
AnSource(id) == CHOOSE source \in AnCatalog : source.id = id

ConcurrentSourceLists ==
    { <<OrdersSource, CustomersSource>>,
      <<AnSource("events")>>,
      <<AnSource("sales"), RawSource>> }

ConcurrentRequirements ==
    { BusinessRequirements(<<>>, "daily"), BusinessRequirements(<<"analitika">>, "hourly") }

ConcurrentWorlds ==
    [yandex : { BackendStatus, BackendRaise, BackendOk(<<"{", "v", "}">>) },
     deepseek : { BackendStatus, BackendOk(CompleteReply) }]

\* How far generate_recommendations of the first request is: the number of
\* the points it has passed at which it gives way.
LlmProgress ==
    CASE pc.llm = "yandex"           -> 1
      [] pc.llm = "yandex_closing"   -> 2
      [] pc.llm = "deepseek"         -> 3
      [] pc.llm = "deepseek_closing" -> 4
      [] pc.llm = "done"             -> 5
      [] OTHER                       -> 0

\* How far the first request is.
StepsDone ==
    (IF pc.analyzer = "done" THEN 1 ELSE 0)
    + (IF pc.relationships = "done" THEN 1 ELSE 0)
    + (IF pc.patterns = "done" THEN 1 ELSE 0)
    + LlmProgress

\* The second request, step by step.
OtherProfileSources ==
    /\ other.step = "new"
    /\ ~FirstRunning
    /\ other' = [other EXCEPT !.sources = profile_sources(@),
                              !.step = "relationships",
                              !.at = Append(@, StepsDone)]
    /\ UNCHANGED <<pc, prof_call, prof_ret, yandex_api_key, deepseek_api_key, llm_call,
                   llm_ret, an_sources, rel_ret, pat_ret, rule_call, rule_ret, rule_log, sql_ret, http_call, http_ret, objects>>

OtherFindRelationships ==
    /\ other.step = "relationships"
    /\ \E relationships \in find_relationships(other.sources) :
          other' = [other EXCEPT !.relationships = AnReturn(relationships),
                                 !.step = "patterns"]
    /\ UNCHANGED <<pc, prof_call, prof_ret, yandex_api_key, deepseek_api_key, llm_call,
                   llm_ret, an_sources, rel_ret, pat_ret, rule_call, rule_ret, rule_log, sql_ret, http_call, http_ret, objects>>

OtherAnalyzeDataPatterns ==
    /\ other.step = "patterns"
    /\ other' = [other EXCEPT !.patterns = AnReturn(analyze_data_patterns(other.sources)),
                              !.step = "recommend"]
    /\ UNCHANGED <<pc, prof_call, prof_ret, yandex_api_key, deepseek_api_key, llm_call,
                   llm_ret, an_sources, rel_ret, pat_ret, rule_call, rule_ret, rule_log, sql_ret, http_call, http_ret, objects>>

OtherRecommend ==
    /\ other.step = "recommend"
    /\ LET part == generate_recommendations_enter(
                       Self, other.sources, other.business_requirements,
                       other.patterns.val[1])
       IN  other' = [other EXCEPT !.recommendations = part.ret, !.step = part.at]
    /\ UNCHANGED <<pc, prof_call, prof_ret, yandex_api_key, deepseek_api_key, llm_call,
                   llm_ret, an_sources, rel_ret, pat_ret, rule_call, rule_ret, rule_log, sql_ret, http_call, http_ret, objects>>

OtherYandexAnswers ==
    /\ other.step = "yandex"
    /\ ~FirstRunning
    /\ other' = [other EXCEPT !.step = "yandex_closing", !.at = Append(@, StepsDone)]
    /\ UNCHANGED <<pc, prof_call, prof_ret, yandex_api_key, deepseek_api_key, llm_call,
                   llm_ret, an_sources, rel_ret, pat_ret, rule_call, rule_ret, rule_log, sql_ret, http_call, http_ret, objects>>

OtherYandexClientCloses ==
    /\ other.step = "yandex_closing"
    /\ ~FirstRunning
    /\ LET part == generate_recommendations_yandex(
                       Self, other.sources, other.business_requirements,
                       other.patterns.val[1], other.world)
       IN  other' = [other EXCEPT !.recommendations = part.ret, !.step = part.at,
                                  !.at = Append(@, StepsDone)]
    /\ UNCHANGED <<pc, prof_call, prof_ret, yandex_api_key, deepseek_api_key, llm_call,
                   llm_ret, an_sources, rel_ret, pat_ret, rule_call, rule_ret, rule_log, sql_ret, http_call, http_ret, objects>>

OtherDeepseekAnswers ==
    /\ other.step = "deepseek"
    /\ ~FirstRunning
    /\ other' = [other EXCEPT !.step = "deepseek_closing", !.at = Append(@, StepsDone)]
    /\ UNCHANGED <<pc, prof_call, prof_ret, yandex_api_key, deepseek_api_key, llm_call,
                   llm_ret, an_sources, rel_ret, pat_ret, rule_call, rule_ret, rule_log, sql_ret, http_call, http_ret, objects>>

OtherDeepseekClientCloses ==
    /\ other.step = "deepseek_closing"
    /\ ~FirstRunning
    /\ LET part == generate_recommendations_deepseek(
                       Self, other.sources, other.business_requirements,
                       other.patterns.val[1], other.world, other.recommendations.calls)
       IN  other' = [other EXCEPT !.recommendations = part.ret, !.step = part.at,
                                  !.at = Append(@, StepsDone)]
    /\ UNCHANGED <<pc, prof_call, prof_ret, yandex_api_key, deepseek_api_key, llm_call,
                   llm_ret, an_sources, rel_ret, pat_ret, rule_call, rule_ret, rule_log, sql_ret, http_call, http_ret, objects>>

InitConcurrent ==
    /\ pc = [analyzer |-> "ready", llm |-> "waiting", relationships |-> "waiting",
             patterns |-> "waiting", rules |-> "idle", sql |-> "idle",
             http |-> "idle"]
    /\ prof_call = NoCall
    /\ prof_ret = NoRet
    /\ yandex_api_key \in BOOLEAN
    /\ deepseek_api_key \in BOOLEAN
    /\ an_sources \in ConcurrentSourceLists
    /\ \E req \in ConcurrentRequirements, world \in ConcurrentWorlds :
          llm_call = [LlmIdleCall EXCEPT !.business_requirements = req, !.world = world]
    /\ llm_ret = LlmNoRet
    /\ rel_ret = AnNoRet
    /\ pat_ret = AnNoRet
    /\ rule_call = RuleIdleCall
    /\ rule_ret = AnNoRet
    /\ rule_log = <<>>
    /\ \E sources \in ConcurrentSourceLists, req \in ConcurrentRequirements,
          world \in ConcurrentWorlds :
          other = [OtherIdle EXCEPT !.sources = sources, !.business_requirements = req,
                                    !.world = world, !.step = "new"]
    /\ sql_ret = AnNoRet
    /\ http_call = HttpIdleCall
    /\ http_ret = HttpNoRet
    /\ objects = <<>>

NextConcurrent ==
    \/ ProfileSources
    \/ FindRelationships
    \/ AnalyzeDataPatterns
    \/ RecommendForRequest
    \/ YandexAnswers
    \/ YandexClientCloses
    \/ DeepseekAnswers
    \/ DeepseekClientCloses
    \/ OtherProfileSources
    \/ OtherFindRelationships
    \/ OtherAnalyzeDataPatterns
    \/ OtherRecommend
    \/ OtherYandexAnswers
    \/ OtherYandexClientCloses
    \/ OtherDeepseekAnswers
    \/ OtherDeepseekClientCloses

SpecConcurrent == InitConcurrent /\ [][NextConcurrent]_vars

(***************************************************************************)
(* pipeline_generator.py generate_sql_scripts.  A script is a sequence of  *)
(* pieces of text; the table names are pieces of their own.                *)
(***************************************************************************)
clickhouse_optimization ==
    <<"\n-- Optimizacija dlja ClickHouse\nOPTIMIZE TABLE ", "analytics_data",
      " FINAL;\n\n-- Proverka razmera tablicy\nSELECT \n    table,\n    formatReadableSize(sum(bytes)) as size,\n    sum(rows) as rows\nFROM system.parts \nWHERE table = '",
      "analytics_data", "' \nGROUP BY table;\n">>

postgresql_optimization ==
    <<"\n-- Optimizacija dlja PostgreSQL\nANALYZE ", "processed_data",
      ";\n\n-- Sozdanie dopolnitel'nyh indeksov pri neobhodimosti  \n-- CREATE INDEX CONCURRENTLY IF NOT EXISTS idx_",
      "processed_data", "_timestamp \n-- ON ", "processed_data",
      "(etl_timestamp);\n\n-- Statistika po tablice\nSELECT \n    schemaname,\n    tablename,\n    n_tup_ins as inserts,\n    n_tup_upd as updates,\n    n_tup_del as deletes\nFROM pg_stat_user_tables \nWHERE tablename = '",
      "processed_data", "';">>

\* pipeline_generator.py generate_sql_scripts
generate_sql_scripts(recommendations) ==
    LET ddl_script == dict_get(dict_get(recommendations, "schema_design", <<>>),
                               "ddl_script", <<>>)
        storage_type == dict_get(dict_get(recommendations, "storage_recommendation", <<>>),
                                 "primary", "postgresql")
    IN  [ddl |-> ddl_script,
         optimization |-> IF storage_type = "clickhouse"
                          THEN clickhouse_optimization
                          ELSE postgresql_optimization]

\* One call of pipeline_generator.generate_sql_scripts on the
\* recommendations the rule-based strategy returned.
GenerateSqlScripts ==
    /\ pc.rules = "done"
    /\ pc.sql = "waiting"
    /\ sql_ret' = AnReturn(generate_sql_scripts(rule_ret.val[1]))
    /\ pc' = [pc EXCEPT !.sql = "done"]
    /\ UNCHANGED <<prof_call, prof_ret, yandex_api_key, deepseek_api_key, llm_call, llm_ret,
                   an_sources, rel_ret, pat_ret, rule_call, rule_ret, rule_log, other, http_call, http_ret, objects>>

\* The rule-based strategy, then the SQL scripts for its recommendations.
InitScripts ==
    /\ pc = [analyzer |-> "idle", llm |-> "idle", relationships |-> "idle",
             patterns |-> "idle", rules |-> "ready", sql |-> "waiting",
             http |-> "idle"]
    /\ prof_call = NoCall
    /\ prof_ret = NoRet
    /\ yandex_api_key = FALSE
    /\ deepseek_api_key = FALSE
    /\ llm_call = LlmIdleCall
    /\ llm_ret = LlmNoRet
    /\ an_sources = <<>>
    /\ rel_ret = AnNoRet
    /\ pat_ret = AnNoRet
    /\ rule_call \in [sources : RuleSourceLists,
                      business_requirements :
                          { BusinessRequirements(m, f) : m \in RuleMetrics,
                                                         f \in UpdateFrequency },
                      data_patterns : RulePatterns]
    /\ rule_ret = AnNoRet
    /\ rule_log = <<>>
    /\ other = OtherIdle
    /\ sql_ret = AnNoRet
    /\ http_call = HttpIdleCall
    /\ http_ret = HttpNoRet
    /\ objects = <<>>

NextScripts == GenerateRuleBased \/ GenerateSqlScripts

SpecScripts == InitScripts /\ [][NextScripts]_vars

\* The HTTP operations: one request to /upload-csv or /test-connection.
InitEndpoints ==
    /\ pc = [analyzer |-> "idle", llm |-> "idle", relationships |-> "idle",
             patterns |-> "idle", rules |-> "idle", sql |-> "idle",
             http |-> "ready"]
    /\ prof_call = NoCall
    /\ prof_ret = NoRet
    /\ yandex_api_key = FALSE
    /\ deepseek_api_key = FALSE
    /\ llm_call = LlmIdleCall
    /\ llm_ret = LlmNoRet
    /\ an_sources = <<>>
    /\ rel_ret = AnNoRet
    /\ pat_ret = AnNoRet
    /\ rule_call = RuleIdleCall
    /\ rule_ret = AnNoRet
    /\ rule_log = <<>>
    /\ other = OtherIdle
    /\ sql_ret = AnNoRet
    /\ http_call \in HttpRequests
    /\ http_ret = HttpNoRet
    /\ objects = <<>>

NextEndpoints == UploadCsvFile \/ TestDatabaseConnection

SpecEndpoints == InitEndpoints /\ [][NextEndpoints]_vars

(***************************************************************************)
(* Properties of the Recommendation Engine (SpecLLM).                      *)
(***************************************************************************)
LlmDone == pc.llm = "done"

\* The rule-based result for the arguments of the call.
RuleBasedForCall ==
    _generate_rule_based_recommendations(
        llm_call.sources, llm_call.business_requirements, llm_call.data_patterns)

\* The call obtained a non-empty reply from a backend.
GotReply == \E i \in 1..Len(llm_ret.calls) : llm_ret.calls[i] = "parse"

\* That reply: YandexGPT's if it gave one, DeepSeek's otherwise.
ReplyText ==
    IF yandex_api_key /\ llm_call.world.yandex.kind = "ok"
       /\ llm_call.world.yandex.text # <<>>
    THEN llm_call.world.yandex.text
    ELSE llm_call.world.deepseek.text

\* No JSON object can be recovered from the text: it has no '{', or no '}',
\* or the span from the first '{' to the last '}' is not valid JSON.
Unrecoverable(text) ==
    LET opens == { i \in 1..Len(text) : text[i] = "{" }
        closes == { i \in 1..Len(text) : text[i] = "}" }
    IN  \/ opens = {}
        \/ closes = {}
        \/ LET first == CHOOSE i \in opens : \A j \in opens : i <= j
               last == CHOOSE i \in closes : \A j \in closes : j <= i
           IN  ~json_valid(SubSeq(text, first, last))

\* C1: whenever a backend's reply holds no recoverable JSON object,
\* generate_recommendations returns the rule-based result for the same
\* arguments.
C1_UnparsableReplyFallsBack ==
    (LlmDone /\ GotReply /\ Unrecoverable(ReplyText))
        => (llm_ret.exc = "" /\ llm_ret.val = Some(RuleBasedForCall))

\* Every configured backend raises or answers with a non-success status
\* (none configured included).
AllBackendsFail ==
    /\ yandex_api_key => llm_call.world.yandex.kind \in {"raise", "status"}
    /\ deepseek_api_key => llm_call.world.deepseek.kind \in {"raise", "status"}

\* C2: if every configured backend call raises or returns a non-success
\* status, or no key is configured, generate_recommendations returns without
\* raising and its result is the rule-based result for the same arguments.
C2_BackendFailureFallsBack ==
    (LlmDone /\ AllBackendsFail)
        => (llm_ret.exc = "" /\ llm_ret.val = Some(RuleBasedForCall))

\* C3: every value generate_recommendations returns has the three sections
\* storage_recommendation, schema_design and etl_pipeline.
C3_ReturnedShape ==
    (LlmDone /\ llm_ret.exc = "")
        => Sections \subseteq DOMAIN llm_ret.val[1]

\* C7: generate_recommendations returns a recommendation without raising for
\* every list of sources, a source without schema_info included.
C7_NeverRaises ==
    LlmDone => (llm_ret.exc = "" /\ ~IsNone(llm_ret.val))

(***************************************************************************)
(* Properties of the Schema Profiler (SpecProfiler).                       *)
(***************************************************************************)
ProfDone == pc.analyzer = "done"

SupportedTypes == {"csv", "postgresql", "json", "excel"}

\* The read of the source fails: a config key is missing, the file is
\* missing or does not decode, the database is unreachable.
ReadFails(source) ==
    IF source.type = "postgresql"
    THEN \/ ~source.config.conn_keys \/ ~source.config.table_key
         \/ ~source.config.engine_ok \/ ~source.config.query_ok
    ELSE source.config.locator = "none" \/ ~source.config.readable

\* C4: for a supported source kind whose read fails in any way,
\* analyze_source does not raise and returns the SchemaInfo with columns=[],
\* dtypes={}, sample_data=[], row_count=0, null_counts={}, unique_counts={}.
C4_ReadFailureGivesEmptySchema ==
    (ProfDone /\ prof_call.type \in SupportedTypes /\ ReadFails(prof_call))
        => /\ prof_ret.exc = ""
           /\ ~IsNone(prof_ret.val)
           /\ prof_ret.val[1].columns = <<>>
           /\ DOMAIN prof_ret.val[1].dtypes = {}
           /\ prof_ret.val[1].sample_data = <<>>
           /\ prof_ret.val[1].row_count = 0
           /\ DOMAIN prof_ret.val[1].null_counts = {}
           /\ DOMAIN prof_ret.val[1].unique_counts = {}

\* A supported source whose query fails has been profiled.
C4_Witness ==
    /\ ProfDone
    /\ prof_call.type = "postgresql"
    /\ prof_call.config.conn_keys /\ prof_call.config.table_key
    /\ prof_call.config.engine_ok /\ ~prof_call.config.query_ok
    /\ prof_ret.exc = ""
    /\ prof_ret.val[1].row_count = 0

\* C5: analyze_source on a source of an unsupported type (clickhouse,
\* rest_api) raises an error to the caller.
C5_UnsupportedTypeRaises ==
    (ProfDone /\ prof_call.type \notin SupportedTypes) => prof_ret.exc # ""

\* C6: every database engine a profiling call created has been released
\* (engine.dispose) when the call returns, on every exit path.
C6_EngineAlwaysDisposed ==
    ProfDone => prof_ret.disposed = prof_ret.created

\* C8: for every source kind that is read and every source size, the
\* row_count analyze_source returns is at most the sample cap.
C8_RowCountWithinCap ==
    (ProfDone /\ prof_call.type \in SupportedTypes /\ prof_ret.exc = "")
        => prof_ret.val[1].row_count <= SampleCap

\* C9, as stated: every SchemaInfo analyze_source returns has
\* len(sample_data) = min(5, row_count).
C9_PreviewIsMinOfFiveAndRows ==
    (ProfDone /\ prof_ret.exc = "")
        => Len(prof_ret.val[1].sample_data) = Min(5, prof_ret.val[1].row_count)

\* C9, amended: every SchemaInfo analyze_source returns has
\* len(sample_data) <= 5 and len(sample_data) <= row_count, and
\* len(sample_data) = min(5, row_count) whenever it has at least one column.
C9_PreviewCapped ==
    (ProfDone /\ prof_ret.exc = "")
        => /\ Len(prof_ret.val[1].sample_data) <= 5
           /\ Len(prof_ret.val[1].sample_data) <= prof_ret.val[1].row_count
           /\ (prof_ret.val[1].columns # <<>>
                 => Len(prof_ret.val[1].sample_data)
                      = Min(5, prof_ret.val[1].row_count))

\* A source of more than five rows has been profiled and previewed.
C9_Witness ==
    /\ ProfDone
    /\ ~prof_ret.failed
    /\ prof_ret.val[1].row_count > 5
    /\ Len(prof_ret.val[1].sample_data) = 5

\* C10: for every non-failure SchemaInfo, the key sets of dtypes,
\* null_counts and unique_counts are each exactly the set of column names.
C10_PerColumnKeySets ==
    (ProfDone /\ ~prof_ret.failed)
        => /\ DOMAIN prof_ret.val[1].dtypes = Range(prof_ret.val[1].columns)
           /\ DOMAIN prof_ret.val[1].null_counts = Range(prof_ret.val[1].columns)
           /\ DOMAIN prof_ret.val[1].unique_counts = Range(prof_ret.val[1].columns)

\* A source with a numeric and a text column has been profiled.
C10_Witness ==
    /\ ProfDone
    /\ ~prof_ret.failed
    /\ prof_ret.val[1].row_count > 0
    /\ Range(prof_ret.val[1].columns) = {"id", "name"}

(***************************************************************************)
(* Properties of the Relationship Detector (SpecAnalysis).                 *)
(***************************************************************************)
RelDone == pc.relationships = "done"

\* The relationships the call returned.
Relationships == rel_ret.val[1]

\* The column names of a source: none when its schema_info is absent or has
\* no columns.
ColumnNames(source) ==
    IF source.schema_info = None THEN {}
    ELSE IF "columns" \in DOMAIN source.schema_info[1]
    THEN { source.schema_info[1].columns[k] :
             k \in 1..Len(source.schema_info[1].columns) }
    ELSE {}

\* The index pairs i < j whose sources share a column name.
RelatedPairs ==
    { p \in (1..Len(an_sources)) \X (1..Len(an_sources)) :
        /\ p[1] < p[2]
        /\ ColumnNames(an_sources[p[1]]) \cap ColumnNames(an_sources[p[2]]) # {} }

\* C11: find_relationships raises nothing and returns one relationship for
\* each index pair i < j whose sources both have schema_info and share a
\* column name, and none for any other pair.
C11_OneRelationshipPerRelatedPair ==
    RelDone =>
        /\ rel_ret.exc = ""
        /\ Len(Relationships) = Cardinality(RelatedPairs)
        /\ \A p \in RelatedPairs :
              \E k \in 1..Len(Relationships) :
                 /\ Relationships[k].source1_id = an_sources[p[1]].id
                 /\ Relationships[k].source2_id = an_sources[p[2]].id
        /\ \A k \in 1..Len(Relationships) :
              \E p \in RelatedPairs :
                 /\ Relationships[k].source1_id = an_sources[p[1]].id
                 /\ Relationships[k].source2_id = an_sources[p[2]].id

\* Three sources, one of them never profiled, the other two sharing exactly
\* one column: one relationship is returned.
C11_Witness ==
    /\ RelDone
    /\ Len(an_sources) = 3
    /\ \E i \in 1..3 : an_sources[i].schema_info = None
    /\ \E p \in RelatedPairs :
          Cardinality(ColumnNames(an_sources[p[1]]) \cap ColumnNames(an_sources[p[2]])) = 1
    /\ Len(Relationships) = 1

\* Pair p comes before pair q in the order of the nested loops.
Before(p, q) == p[1] < q[1] \/ (p[1] = q[1] /\ p[2] < q[2])

\* The position of a related pair among the related pairs, in that order.
Rank(p) == 1 + Cardinality({ q \in RelatedPairs : Before(q, p) })

\* C12: the relationships are listed in the nested iteration order of the
\* input list (i ascending, then j ascending), and source1_id is the source
\* at the lower index of the pair.
C12_NestedIterationOrder ==
    RelDone =>
        \A p \in RelatedPairs :
            /\ Rank(p) \in 1..Len(Relationships)
            /\ Relationships[Rank(p)].source1_id = an_sources[p[1]].id
            /\ Relationships[Rank(p)].source2_id = an_sources[p[2]].id

\* Three different sources, every two of them related: three relationships
\* whose order tells the pairs apart.
C12_Witness ==
    /\ RelDone
    /\ Len(an_sources) = 3
    /\ Cardinality({ an_sources[i].id : i \in 1..3 }) = 3
    /\ Len(Relationships) = 3
    /\ Relationships[1].source2_id = an_sources[2].id
    /\ Relationships[2].source2_id = an_sources[3].id
    /\ Relationships[3].source1_id = an_sources[2].id

\* The larger of the two column-set sizes of a pair.
LargerSize(p) ==
    IF Cardinality(ColumnNames(an_sources[p[1]])) >= Cardinality(ColumnNames(an_sources[p[2]]))
    THEN Cardinality(ColumnNames(an_sources[p[1]]))
    ELSE Cardinality(ColumnNames(an_sources[p[2]]))

\* C13: the confidence of every relationship is the number of common columns
\* divided by the larger of the two column-set sizes; it lies in [0,1] and
\* is 1 when the two column sets are identical.
C13_ConfidenceIsCommonOverLarger ==
    RelDone =>
        \A p \in RelatedPairs :
            LET confidence == Relationships[Rank(p)].confidence
                common == ColumnNames(an_sources[p[1]]) \cap ColumnNames(an_sources[p[2]])
            IN  /\ confidence.den > 0
                /\ confidence.num * LargerSize(p) = Cardinality(common) * confidence.den
                /\ 0 <= confidence.num
                /\ confidence.num <= confidence.den
                /\ (ColumnNames(an_sources[p[1]]) = ColumnNames(an_sources[p[2]])
                      => confidence.num = confidence.den)

\* Two different sources with identical column sets give confidence 1, and a
\* third one sharing two of its three columns gives 2/3.
C13_Witness ==
    /\ RelDone
    /\ \E p \in RelatedPairs :
          /\ an_sources[p[1]].id # an_sources[p[2]].id
          /\ ColumnNames(an_sources[p[1]]) = ColumnNames(an_sources[p[2]])
          /\ Relationships[Rank(p)].confidence = [num |-> 1, den |-> 1]
    /\ \E p \in RelatedPairs :
          Relationships[Rank(p)].confidence = [num |-> 2, den |-> 3]

\* The substrings that mark a key column, highest priority first.
KeySubstrings == <<"id", "uuid", "key", "code">>

\* The lowercase name of the column contains the k-th substring.
NameHas(column, k) == in_lower(KeySubstrings[k], column)

\* The columns two sources of a pair have in common.
Common(p) == ColumnNames(an_sources[p[1]]) \cap ColumnNames(an_sources[p[2]])

\* C14: when the lowercase name of some common column contains one of the
\* substrings id, uuid, key, code, the join key is a common column that
\* contains the highest-priority substring found among the common columns,
\* whatever the uniqueness counts; common columns {user_id, name} select
\* user_id.
C14_PrioritySubstringSelectsKey ==
    RelDone =>
        \A p \in RelatedPairs :
            /\ \A k \in 1..Len(KeySubstrings) :
                  ( /\ \E f \in Common(p) : NameHas(f, k)
                    /\ \A j \in 1..(k - 1) : \A f \in Common(p) : ~NameHas(f, j) )
                  => \E f \in Common(p) :
                        /\ NameHas(f, k)
                        /\ DOMAIN Relationships[Rank(p)].join_keys = {f}
                        /\ Relationships[Rank(p)].join_keys[f] = f
            /\ Common(p) = {"user_id", "name"}
                  => DOMAIN Relationships[Rank(p)].join_keys = {"user_id"}

\* Two different sources with common columns {user_id, name}, where name has
\* more distinct values than user_id in both, and user_id was selected.
C14_Witness ==
    /\ RelDone
    /\ \E p \in RelatedPairs :
          /\ an_sources[p[1]].id # an_sources[p[2]].id
          /\ Common(p) = {"user_id", "name"}
          /\ \A i \in {p[1], p[2]} :
                an_sources[i].schema_info[1].unique_counts.name
                    > an_sources[i].schema_info[1].unique_counts.user_id
          /\ DOMAIN Relationships[Rank(p)].join_keys = {"user_id"}

\* C15: every relationship has join_type LEFT JOIN, and join_keys that is
\* either empty or one pair {k: k} where k is a column of both sources.
C15_LeftJoinAndSelfMappedKey ==
    RelDone =>
        /\ \A k \in 1..Len(Relationships) : Relationships[k].join_type = "LEFT JOIN"
        /\ \A p \in RelatedPairs :
              \/ DOMAIN Relationships[Rank(p)].join_keys = {}
              \/ \E f \in Common(p) :
                    /\ DOMAIN Relationships[Rank(p)].join_keys = {f}
                    /\ Relationships[Rank(p)].join_keys[f] = f

\* One relationship without a key (common columns, none matching a pattern
\* and none with a positive uniqueness) and one keyed on a column chosen by
\* uniqueness.
C15_Witness ==
    /\ RelDone
    /\ \E p \in RelatedPairs :
          /\ Common(p) = {"amount", "name"}
          /\ DOMAIN Relationships[Rank(p)].join_keys = {}
    /\ \E p \in RelatedPairs :
          /\ DOMAIN Relationships[Rank(p)].join_keys = {"amount"}
          /\ Relationships[Rank(p)].join_keys["amount"] = "amount"

(***************************************************************************)
(* Properties of the pattern analysis (SpecAnalysis).                      *)
(***************************************************************************)
PatDone == pc.patterns = "done"

\* The patterns the call returned.
Patterns == pat_ret.val[1]

\* The column list of a source: empty when its schema_info is absent or has
\* no columns.
ColumnList(source) ==
    IF source.schema_info = None THEN <<>>
    ELSE IF "columns" \in DOMAIN source.schema_info[1]
    THEN source.schema_info[1].columns
    ELSE <<>>

TemporalWords == {"date", "time", "created", "updated", "timestamp"}
GeoWords == {"lat", "lon", "city", "country", "region", "address"}

\* The occurrences <<source index, column index>> of the columns whose
\* lowercase name contains one of the words.
Occurrences(words) ==
    UNION { { <<i, c>> :
                c \in { d \in 1..Len(ColumnList(an_sources[i])) :
                          \E w \in words : in_lower(w, ColumnList(an_sources[i])[d]) } } :
            i \in 1..Len(an_sources) }

\* The position of an occurrence in source order, then column order.
OccurrenceRank(words, o) ==
    1 + Cardinality({ q \in Occurrences(words) : Before(q, o) })

\* The list holds exactly the occurrences, in order.
ListsOccurrences(list, words) ==
    /\ Len(list) = Cardinality(Occurrences(words))
    /\ \A o \in Occurrences(words) :
          list[OccurrenceRank(words, o)] = ColumnList(an_sources[o[1]])[o[2]]

\* C16: temporal_columns (geographical_columns) lists the columns of the
\* profiled sources whose lowercase name contains a temporal (geographic)
\* keyword, in source order then column order, once per occurrence, and
\* each flag is true iff its list is not empty; one source with columns
\* [created_at, value] gives has_temporal_data, temporal_columns
\* [created_at] and no geographical data.
C16_SignalColumnsAndFlags ==
    PatDone =>
        /\ ListsOccurrences(Patterns.temporal_columns, TemporalWords)
        /\ ListsOccurrences(Patterns.geographical_columns, GeoWords)
        /\ Patterns.has_temporal_data = (Patterns.temporal_columns # <<>>)
        /\ Patterns.has_geographical_data = (Patterns.geographical_columns # <<>>)
        /\ ( /\ Len(an_sources) = 1
             /\ ColumnList(an_sources[1]) = <<"created_at", "value">> )
           => /\ Patterns.has_temporal_data = TRUE
              /\ Patterns.temporal_columns = <<"created_at">>
              /\ Patterns.has_geographical_data = FALSE

\* The same temporal column in two sources is listed twice, a name in capitals
\* is matched, and a geographic column is found.
C16_Witness ==
    /\ PatDone
    /\ Patterns.temporal_columns = <<"created_at", "created_at", "UPDATED">>
    /\ Patterns.has_temporal_data = TRUE
    /\ Patterns.geographical_columns = <<"Country">>
    /\ Patterns.has_geographical_data = TRUE

\* The source has schema_info: not None, and not a dict without keys.
HasSchemaInfo(source) == source.schema_info # None /\ source.schema_info # Some(<<>>)

\* The row_count of the first n sources, summed over those with schema_info.
RECURSIVE SumOfRowCounts(_)
SumOfRowCounts(n) ==
    IF n = 0 THEN 0
    ELSE SumOfRowCounts(n - 1)
         + (IF HasSchemaInfo(an_sources[n])
            THEN an_sources[n].schema_info[1].row_count ELSE 0)

\* C17: analyze_data_patterns raises nothing and returns total_estimated_rows
\* equal to the sum of row_count over the sources that have schema_info; the
\* other sources add nothing to the total or to the two column lists.
C17_TotalIsSumOverProfiled ==
    PatDone =>
        /\ pat_ret.exc = ""
        /\ Patterns.total_estimated_rows = SumOfRowCounts(Len(an_sources))
        /\ (\A i \in 1..Len(an_sources) : ~HasSchemaInfo(an_sources[i]))
              => /\ Patterns.total_estimated_rows = 0
                 /\ Patterns.temporal_columns = <<>>
                 /\ Patterns.geographical_columns = <<>>

\* Two profiled sources around one that was never profiled: the total is the
\* sum of the two row counts.
C17_Witness ==
    /\ PatDone
    /\ Len(an_sources) = 3
    /\ HasSchemaInfo(an_sources[1])
    /\ an_sources[2].schema_info = None
    /\ HasSchemaInfo(an_sources[3])
    /\ an_sources[1].schema_info[1].row_count = 1000000
    /\ an_sources[3].schema_info[1].row_count = 50000
    /\ Patterns.total_estimated_rows = 1050000

\* C18: suggested_partitioning is "monthly" iff there is temporal data and
\* more than 1,000,000 rows in total, "yearly" iff there is temporal data and
\* more than 100,000 but at most 1,000,000 rows, and None in every other
\* case.
C18_SuggestedPartitioning ==
    PatDone =>
        /\ (Patterns.suggested_partitioning = Some("monthly"))
              <=> (Patterns.has_temporal_data /\ Patterns.total_estimated_rows > 1000000)
        /\ (Patterns.suggested_partitioning = Some("yearly"))
              <=> ( /\ Patterns.has_temporal_data
                    /\ Patterns.total_estimated_rows > 100000
                    /\ Patterns.total_estimated_rows <= 1000000 )
        /\ (Patterns.suggested_partitioning = None)
              <=> ( \/ ~Patterns.has_temporal_data
                    \/ Patterns.total_estimated_rows <= 100000 )

\* Temporal data and exactly 100,000 rows in total: nothing is suggested.
C18_Witness ==
    /\ PatDone
    /\ Patterns.has_temporal_data
    /\ Patterns.total_estimated_rows = 100000
    /\ Patterns.suggested_partitioning = None

(***************************************************************************)
(* Properties of the rule-based strategy (SpecRules).                      *)
(***************************************************************************)
RulesDone == pc.rules = "done"

\* The recommendations the call returned.
Recommendations == rule_ret.val[1]

\* Some target metric is one of the analytics keywords.
AnalyticsMetric ==
    Range(rule_call.business_requirements.target_metrics)
        \cap {"prodazhi", "analitika", "otchet", "dashbord"} # {}

\* The conditions of the first and of the second storage branch.
AnalyticsBranch ==
    /\ AnalyticsMetric
    /\ rule_call.data_patterns.has_temporal_data
    /\ rule_call.data_patterns.total_estimated_rows > 100000

VolumeBranch == rule_call.data_patterns.total_estimated_rows > 1000000

\* C19: the rule-based strategy chooses clickhouse iff (an analytics metric
\* and temporal data and more than 100,000 rows) or more than 1,000,000
\* rows, and postgresql otherwise; the reasoning is that of the first branch
\* that applies.
C19_StorageChoice ==
    RulesDone =>
        /\ (Recommendations.storage_recommendation.primary = "clickhouse")
              <=> (AnalyticsBranch \/ VolumeBranch)
        /\ (Recommendations.storage_recommendation.primary = "postgresql")
              <=> ~(AnalyticsBranch \/ VolumeBranch)
        /\ Recommendations.storage_recommendation.reasoning =
              IF AnalyticsBranch
              THEN "Analiticheskie zaprosy po vremennym dannym s bol'shim ob'emom"
              ELSE IF VolumeBranch
              THEN "Bol'shoj ob'em dannyh trebuet kolonochnogo hranilishha"
              ELSE "Standartnye operacionnye dannye srednej nagruzki"

\* An analytics keyword among the metrics, temporal data and 100,001 rows:
\* clickhouse by the first branch.
C19_Witness ==
    /\ RulesDone
    /\ rule_call.business_requirements.target_metrics = <<"revenue", "otchet">>
    /\ rule_call.data_patterns.has_temporal_data
    /\ rule_call.data_patterns.total_estimated_rows = 100001
    /\ Recommendations.storage_recommendation.primary = "clickhouse"
    /\ Recommendations.storage_recommendation.reasoning =
          "Analiticheskie zaprosy po vremennym dannym s bol'shim ob'emom"

\* The strategy was given temporal data and chose clickhouse.
TemporalOnClickhouse ==
    /\ rule_call.data_patterns.has_temporal_data
    /\ Recommendations.storage_recommendation.primary = "clickhouse"

\* C20: schema_design.partitioning is the monthly expression iff there is
\* temporal data, the storage is clickhouse and there are more than
\* 1,000,000 rows; the yearly expression iff there is temporal data, the
\* storage is clickhouse and there are at most 1,000,000 rows; None
\* otherwise.  2,000,000 rows with temporal data and an analytics metric
\* give clickhouse with the monthly expression.
C20_PartitioningExpression ==
    RulesDone =>
        /\ (Recommendations.schema_design.partitioning = Some("PARTITION BY toYYYYMM(date)"))
              <=> ( /\ TemporalOnClickhouse
                    /\ rule_call.data_patterns.total_estimated_rows > 1000000 )
        /\ (Recommendations.schema_design.partitioning = Some("PARTITION BY toYear(date)"))
              <=> ( /\ TemporalOnClickhouse
                    /\ rule_call.data_patterns.total_estimated_rows <= 1000000 )
        /\ (Recommendations.schema_design.partitioning = None) <=> ~TemporalOnClickhouse
        /\ ( /\ rule_call.data_patterns.total_estimated_rows = 2000000
             /\ rule_call.data_patterns.has_temporal_data
             /\ AnalyticsMetric )
           => /\ Recommendations.storage_recommendation.primary = "clickhouse"
              /\ Recommendations.schema_design.partitioning
                    = Some("PARTITION BY toYYYYMM(date)")

\* 2,000,000 rows, temporal data and the metric "analitika": clickhouse,
\* partitioned by month.
C20_Witness ==
    /\ RulesDone
    /\ rule_call.data_patterns.total_estimated_rows = 2000000
    /\ rule_call.data_patterns.has_temporal_data
    /\ rule_call.business_requirements.target_metrics = <<"analitika">>
    /\ Recommendations.storage_recommendation.primary = "clickhouse"
    /\ Recommendations.schema_design.partitioning = Some("PARTITION BY toYYYYMM(date)")

\* C21: the schedule of the rule-based strategy follows a fixed table: once
\* gives the manual marker, hourly "0 * * * *", daily "0 2 * * *", weekly
\* "0 2 * * 0", and realtime or any other value the daily literal.
C21_ScheduleTable ==
    RulesDone =>
        LET frequency == rule_call.business_requirements.update_frequency
            schedule == Recommendations.etl_pipeline.schedule
        IN  /\ frequency = "once" => schedule = "# Run once manually"
            /\ frequency = "hourly" => schedule = "0 * * * *"
            /\ frequency = "daily" => schedule = "0 2 * * *"
            /\ frequency = "weekly" => schedule = "0 2 * * 0"
            /\ frequency \notin {"once", "hourly", "daily", "weekly"}
                  => schedule = "0 2 * * *"

\* A realtime requirement was answered with the daily literal.
C21_Witness ==
    /\ RulesDone
    /\ rule_call.business_requirements.update_frequency = "realtime"
    /\ Recommendations.etl_pipeline.schedule = "0 2 * * *"

\* The finished calls of the rule-based strategy, the last one included.
FinishedRuleCalls ==
    Range(rule_log)
        \cup (IF RulesDone THEN { [call |-> rule_call, ret |-> rule_ret] } ELSE {})

\* The arguments of a call as the caller built them: the dict of data
\* patterns with the columns its list was given.
AsBuilt(call) ==
    [call EXCEPT !.data_patterns.temporal_columns = RepeatObjects[@]]

\* C22: the rule-based strategy is deterministic: two calls with identical
\* (sources, business_requirements, data_patterns), on the same dict or on
\* equal ones, return identical output in every field, whatever was called
\* before or between them and whatever lists these calls made.
C22_RuleBasedDeterministic ==
    \A a \in FinishedRuleCalls, b \in FinishedRuleCalls :
        AsBuilt(a.call) = AsBuilt(b.call) => a.ret = b.ret

\* The third call is handed the very dict of the first, after a second call
\* on another dict that chose another storage; each call made its own list
\* of indexes, and the first and the third filled theirs with the first two
\* of the three temporal columns.
C22_Witness ==
    /\ RulesDone
    /\ Len(rule_log) = 2
    /\ rule_log[1].call = rule_call
    /\ rule_log[2].call # rule_call
    /\ rule_log[2].ret.val[1].storage_recommendation.primary
          # rule_ret.val[1].storage_recommendation.primary
    /\ rule_log[1].ret = rule_ret
    /\ rule_ret.val[1].schema_design.indexes = <<"created_at", "UPDATED">>
    /\ Len(objects) = Len(RepeatObjects) + 3
    /\ objects[rule_call.data_patterns.temporal_columns]
          = <<"created_at", "UPDATED", "created_at">>

(***************************************************************************)
(* Properties of the analysis of a request (SpecPipeline).                 *)
(***************************************************************************)
\* The request has the sources orders and customers, in this order.
OrdersAndCustomers ==
    /\ Len(an_sources) = 2
    /\ ColumnList(an_sources[1]) = <<"order_id", "customer_id", "amount", "created_at">>
    /\ an_sources[1].schema_info[1].row_count = 500000
    /\ ColumnList(an_sources[2]) = <<"customer_id", "name", "country">>
    /\ an_sources[2].schema_info[1].row_count = 10000

\* The recommendations the request obtained.
RequestRecommendations == llm_ret.val[1]

\* No target metric of the request is an analytics keyword.
NoAnalyticsMetric ==
    Range(llm_call.business_requirements.target_metrics)
        \cap {"prodazhi", "analitika", "otchet", "dashbord"} = {}

\* C23: for the sources orders (order_id, customer_id, amount, created_at;
\* 500,000 rows) and customers (customer_id, name, country; 10,000 rows)
\* and no analytics metric, find_relationships returns one relationship
\* keyed on customer_id with confidence 1/4, analyze_data_patterns reports
\* temporal and geographical data and 510,000 rows, and the rule-based
\* strategy on those patterns chooses postgresql.
C23_OrdersAndCustomers ==
    OrdersAndCustomers =>
        /\ RelDone =>
              /\ Len(Relationships) = 1
              /\ DOMAIN Relationships[1].join_keys = {"customer_id"}
              /\ Relationships[1].join_keys["customer_id"] = "customer_id"
              /\ Relationships[1].confidence.num * 4 = Relationships[1].confidence.den
        /\ PatDone =>
              /\ Patterns.has_temporal_data = TRUE
              /\ Patterns.has_geographical_data = TRUE
              /\ Patterns.total_estimated_rows = 510000
        /\ (LlmDone /\ NoAnalyticsMetric) =>
              /\ llm_call.data_patterns = Patterns
              /\ llm_ret.calls = <<"rule_based">>
              /\ RequestRecommendations.storage_recommendation.primary = "postgresql"

\* The request has run to its end on orders and customers with the metric
\* "revenue".
C23_Witness ==
    /\ OrdersAndCustomers
    /\ RelDone
    /\ PatDone
    /\ LlmDone
    /\ llm_call.business_requirements.target_metrics = <<"revenue">>
    /\ Len(Relationships) = 1
    /\ Patterns.temporal_columns = <<"created_at">>
    /\ Patterns.geographical_columns = <<"country">>
    /\ llm_ret.calls = <<"rule_based">>
    /\ RequestRecommendations.storage_recommendation.primary = "postgresql"

(***************************************************************************)
(* Properties of two interleaved requests (SpecConcurrent).                *)
(***************************************************************************)
\* The service object both requests call.
SharedService == [yandex_api_key |-> yandex_api_key, deepseek_api_key |-> deepseek_api_key]

\* What the first request has obtained is what its own inputs determine.
FirstRequestAsAlone ==
    /\ RelDone =>
          /\ Len(Relationships) = Cardinality(RelatedPairs)
          /\ \A p \in RelatedPairs :
                /\ Relationships[Rank(p)].source1_id = an_sources[p[1]].id
                /\ Relationships[Rank(p)].source2_id = an_sources[p[2]].id
          /\ Relationships \in find_relationships(an_sources)
    /\ PatDone =>
          /\ ListsOccurrences(Patterns.temporal_columns, TemporalWords)
          /\ ListsOccurrences(Patterns.geographical_columns, GeoWords)
          /\ Patterns.has_temporal_data = (Occurrences(TemporalWords) # {})
          /\ Patterns.has_geographical_data = (Occurrences(GeoWords) # {})
          /\ Patterns.total_estimated_rows = SumOfRowCounts(Len(an_sources))
          /\ Patterns = analyze_data_patterns(an_sources)
    /\ LlmDone =>
          llm_ret = generate_recommendations(SharedService, an_sources,
                                             llm_call.business_requirements,
                                             Patterns, llm_call.world)

\* What the second request has obtained is what its own inputs determine.
SecondRequestAsAlone ==
    /\ ~IsNone(other.relationships.val)
          => other.relationships.val[1] \in find_relationships(other.sources)
    /\ ~IsNone(other.patterns.val)
          => other.patterns.val[1] = analyze_data_patterns(other.sources)
    /\ other.step = "done"
          => other.recommendations
                = generate_recommendations(SharedService, other.sources,
                                           other.business_requirements,
                                           other.patterns.val[1], other.world)

\* C24: two requests with independent inputs, interleaved on the shared
\* analyzer and llm_service, each obtain the results they would obtain
\* alone.
C24_InterleavedRequestsIndependent ==
    FirstRequestAsAlone /\ SecondRequestAsAlone

\* Both requests are finished, on different sources, and they alternated
\* where a request gives way: the second request started while the first
\* was closing its YandexGPT client after the answer, got its own answer
\* from YandexGPT while the first waited for DeepSeek, and went on while the
\* first was closing its DeepSeek client.
C24_Witness ==
    /\ LlmDone
    /\ other.step = "done"
    /\ other.at = <<5, 6, 7, 7, 7>>
    /\ llm_ret.calls = <<"yandex", "deepseek", "parse">>
    /\ other.recommendations.calls = <<"yandex", "deepseek", "parse">>
    /\ other.sources # an_sources
    /\ other.patterns.val[1].temporal_columns # <<>>
    /\ Patterns.temporal_columns = <<>>

\* The uniqueness ratio of a common column on one side of a pair:
\* distinct_count / max(row_count, 1), a missing count being 0.
SideRatio(f, source) ==
    LET info == source.schema_info[1]
        distinct == IF "unique_counts" \in DOMAIN info
                    THEN (IF f \in DOMAIN info.unique_counts
                          THEN info.unique_counts[f] ELSE 0)
                    ELSE 0
        rows == IF info.row_count >= 1 THEN info.row_count ELSE 1
    IN  Quotient(distinct, rows)

\* x <= y for two ratios.
AtMost(x, y) == x.num * y.den <= y.num * x.den

\* The score of a common column of a pair: the smaller of its two ratios.
Score(f, p) ==
    IF AtMost(SideRatio(f, an_sources[p[1]]), SideRatio(f, an_sources[p[2]]))
    THEN SideRatio(f, an_sources[p[1]])
    ELSE SideRatio(f, an_sources[p[2]])

\* No common column of the pair contains a priority substring.
NoPriorityName(p) ==
    \A f \in Common(p) : \A k \in 1..Len(KeySubstrings) : ~NameHas(f, k)

\* C25: when no common column name contains a priority substring, the join
\* key is a common column of the highest score, the score being the smaller
\* of the two sides' distinct_count / max(row_count, 1); this for every
\* assignment of counts, the one where every common column scores 0
\* included.
C25_HighestScoreSelected ==
    RelDone =>
        \A p \in RelatedPairs :
            NoPriorityName(p)
                => \E f \in Common(p) :
                      /\ DOMAIN Relationships[Rank(p)].join_keys = {f}
                      /\ \A g \in Common(p) : AtMost(Score(g, p), Score(f, p))

\* The strategies called within the generate_recommendations call, in order.
Calls == llm_ret.calls

\* How often a strategy was called.
CallCount(name) == Cardinality({ i \in 1..Len(Calls) : Calls[i] = name })

\* The position of the one call of a strategy.
CallIndex(name) == CHOOSE i \in 1..Len(Calls) : Calls[i] = name

\* A backend answered with a non-empty reply / with no text and no error.
NonEmptyReply(backend) == backend.kind = "ok" /\ backend.text # <<>>
NoText(backend) == backend.kind = "status" \/ (backend.kind = "ok" /\ backend.text = <<>>)

\* C26: within one generate_recommendations call each backend is called at
\* most once, YandexGPT (only if its key is set) before DeepSeek; DeepSeek is
\* called only if its key is set and YandexGPT was not configured or
\* returned no text without raising; after a non-empty reply no further
\* backend is called; the rule-based strategy runs at most once, after the
\* backend attempts.
C26_BackendOrder ==
    LlmDone =>
        /\ CallCount("yandex") <= 1
        /\ CallCount("deepseek") <= 1
        /\ CallCount("rule_based") <= 1
        /\ CallCount("yandex") = 1 => (yandex_api_key /\ CallIndex("yandex") = 1)
        /\ CallCount("deepseek") = 1 =>
              /\ deepseek_api_key
              /\ ~yandex_api_key \/ NoText(llm_call.world.yandex)
              /\ yandex_api_key => (CallCount("yandex") = 1
                                    /\ CallIndex("yandex") < CallIndex("deepseek"))
        /\ (CallCount("yandex") = 1 /\ NonEmptyReply(llm_call.world.yandex))
              => CallCount("deepseek") = 0
        /\ CallCount("rule_based") = 1 =>
              \A i \in 1..Len(Calls) :
                  Calls[i] \in {"yandex", "deepseek"} => i < CallIndex("rule_based")

\* Both keys set: YandexGPT answered without text, then DeepSeek gave a
\* reply, and the rule-based strategy did not run.
C26_Witness ==
    /\ LlmDone
    /\ yandex_api_key
    /\ deepseek_api_key
    /\ NoText(llm_call.world.yandex)
    /\ NonEmptyReply(llm_call.world.deepseek)
    /\ Len(Calls) >= 2
    /\ Calls[1] = "yandex"
    /\ Calls[2] = "deepseek"
    /\ CallCount("rule_based") = 0

\* C27: on patterns produced by analyze_data_patterns, the partition
\* expression of the rule-based strategy agrees with the suggestion of the
\* patterns: the monthly expression only with the suggestion "monthly", the
\* yearly expression only with the suggestion "yearly", and no expression
\* when nothing is suggested.
C27_PartitioningAgreesWithSuggestion ==
    (PatDone /\ LlmDone) =>
        /\ RequestRecommendations.schema_design.partitioning = Some("PARTITION BY toYYYYMM(date)")
              => Patterns.suggested_partitioning = Some("monthly")
        /\ RequestRecommendations.schema_design.partitioning = Some("PARTITION BY toYear(date)")
              => Patterns.suggested_partitioning = Some("yearly")
        /\ Patterns.suggested_partitioning = None
              => RequestRecommendations.schema_design.partitioning = None

\* Exactly 1,000,000 rows of temporal data and an analytics metric: yearly
\* is suggested and the yearly expression is chosen.
C27_Witness ==
    /\ PatDone
    /\ LlmDone
    /\ Patterns.total_estimated_rows = 1000000
    /\ Patterns.suggested_partitioning = Some("yearly")
    /\ RequestRecommendations.storage_recommendation.primary = "clickhouse"
    /\ RequestRecommendations.schema_design.partitioning = Some("PARTITION BY toYear(date)")

(***************************************************************************)
(* Properties of the SQL scripts (SpecScripts).                            *)
(***************************************************************************)
SqlDone == pc.sql = "done"

\* The scripts the call returned.
Scripts == sql_ret.val[1]

\* The tables a script names.
TablesNamed(script) == Range(script) \cap {"analytics_data", "processed_data"}

\* C28: for every recommendation of the rule-based strategy, the
\* optimization script of generate_sql_scripts refers to the table the ddl
\* script creates, schema_design.main_table.
C28_OptimizationOnMainTable ==
    SqlDone =>
        /\ TablesNamed(Scripts.ddl) = { Recommendations.schema_design.main_table }
        /\ TablesNamed(Scripts.optimization) = { Recommendations.schema_design.main_table }

(***************************************************************************)
(* Properties of the HTTP operations (SpecEndpoints).                      *)
(***************************************************************************)
HttpDone == pc.http = "done"

\* The uploaded file's name ends in ".csv".
NamedCsv == endswith(http_call.file.filename, <<".", "c", "s", "v">>)

\* C29: /upload-csv answers an upload whose filename does not end in
\* ".csv" with HTTP status 400 and the detail "File must be a CSV", and
\* has not profiled the file.
C29_NonCsvUploadIs400 ==
    (HttpDone /\ http_call.endpoint = "/upload-csv" /\ ~NamedCsv) =>
        /\ http_ret.status_code = 400
        /\ http_ret.detail = Some(<<"File must be a CSV">>)
        /\ http_ret.analyzed = <<>>

\* The config names a database type the operation connects to.
SupportedType == http_call.config.type \in {Some("postgresql"), Some("clickhouse")}

\* The connection of a supported type failed: a key was missing, or the
\* engine, the server or the query refused.
ConnectionFailed ==
    \/ /\ http_call.config.type = Some("postgresql")
       /\ ~(/\ http_call.config.conn_keys /\ http_call.config.engine_ok
            /\ http_call.config.connect_ok /\ http_call.config.query_ok)
    \/ /\ http_call.config.type = Some("clickhouse")
       /\ ~(/\ http_call.config.host_key
            /\ http_call.config.connect_ok /\ http_call.config.query_ok)

\* C30: /test-connection answers a config whose type is neither
\* "postgresql" nor "clickhouse" with HTTP status 400 and the detail
\* "Unsupported database type", and answers a connection failure of a
\* supported type with a normal response whose status field is "error".
C30_UnsupportedTypeIs400 ==
    (HttpDone /\ http_call.endpoint = "/test-connection") =>
        /\ ~SupportedType =>
               /\ http_ret.status_code = 400
               /\ http_ret.detail = Some(<<"Unsupported database type">>)
        /\ ConnectionFailed =>
               /\ http_ret.status_code = 200
               /\ ~IsNone(http_ret.body)
               /\ http_ret.body[1].status = "error"

====
